---- MODULE Spec2Model ----
(***************************************************************************)
(* AudioMultiverse server: the shared mixer state (channels, routing       *)
(* matrix) and the multi-client WebSocket session layer with its           *)
(* broadcast hub.                                                          *)
(*                                                                         *)
(* Number representation.  The code's f32 parameters are modelled as       *)
(* integers in fixed units: fader, pan and routing gain in hundredths      *)
(* (0.75 is 75, 1.25 is 125, -1.0 is -100), trim gain in whole dB.         *)
(* Only finite values are modelled: the values reach the mixer through     *)
(* serde_json, which cannot carry NaN or an infinity.                      *)
(***************************************************************************)
EXTENDS Integers, Naturals, Sequences, FiniteSets, TLC

(***************************************************************************)
(* Bounds of the model                                                     *)
(***************************************************************************)
\* Mixer::new(input_count, output_count): the configured matrix size.
input_count == 2
output_count == 2
\* Number of direct mixer calls in one behaviour of SpecMixer.
MaxOps == 3
\* Number of WebSocket sessions, and of frames (text or close) they receive.
NumClients == 2
MaxFrames == 2
\* Capacity of the broadcast hub (256 in the code, scaled down so that a
\* lagging receiver is reachable).
HubCapacity == 1
\* Number of meter ticks in one behaviour of SpecMeters.
MaxMeters == 1
\* JitterBuffer::new(capacity), the longest slice pushed at once, and the number
\* of calls in one behaviour of SpecJitter.
JitterCapacity == 3
MaxPush == 2
MaxJitterOps == 5
\* create_ring_buffer(capacity), and the number of try_push / try_pop calls in
\* one behaviour of SpecRing.
RingCapacity == 2
MaxRingOps == 5
\* the output callback: frames per buffer, callbacks run, setter calls made
BufferFrames == 1
MaxCallbacks == 2
MaxSetterCalls == 2
\* the PTP clock: worker threads spawned, start/stop calls, seconds of time, syncs
MaxWorkers == 2
MaxPtpCalls == 3
MaxTime == 4
MaxSyncs == 8
MaxLifecycleSyncs == 2
MaxSapPackets == 3
\* the command channel (32 slots in main.rs, scaled down), the sessions that
\* send commands and the commands sent in all
CommandCapacity == 1
NumRequesters == 2
MaxRequests == 3

(***************************************************************************)
(* Program constants                                                       *)
(***************************************************************************)
FaderDefault == 75
FaderMax == 125
PanMax == 100
GainMaxDb == 20
RoutingMax == 100

(***************************************************************************)
(* Input domains                                                           *)
(***************************************************************************)
\* Channel ids used by callers: the first, the last, and one that does not exist.
ChannelIds == {0, input_count - 1, input_count}
FaderInputs == {-50, 50, 200}
PanInputs == {-200, 50, 150}
GainInputs == {-30, 6, 25}
RoutingGainInputs == {-50, 50, 150}
NameInputs == {<<"Kick">>}
RoutingInputs == {0, input_count - 1, input_count}
RoutingOutputs == {0, output_count - 1, output_count}

None == <<>>
Some(x) == <<x>>
IsSome(o) == o # <<>>
Unwrap(o) == o[1]

\* f32::clamp
Clamp(v, lo, hi) == IF v < lo THEN lo ELSE IF v > hi THEN hi ELSE v

(***************************************************************************)
(* Channel (mixer/channel.rs)                                              *)
(***************************************************************************)
Channel_new(id, name) ==
    [id |-> id, name |-> name, fader |-> FaderDefault, mute |-> FALSE,
     solo |-> FALSE, pan |-> 0, gain |-> 0]

\* Channel::state: the snapshot copies the fields.
Channel_state(ch) ==
    [id |-> ch.id, name |-> ch.name, fader |-> ch.fader, mute |-> ch.mute,
     solo |-> ch.solo, pan |-> ch.pan, gain |-> ch.gain]

\* Mutant: the fader is stored as given.
Channel_set_fader_unclamped(ch, value) == [ch EXCEPT !.fader = value]

Channel_set_fader(ch, value) == [ch EXCEPT !.fader = Clamp(value, 0, FaderMax)]

\* Mutant: "muted" is read as "toggle".
Channel_set_mute_toggle(ch, muted) == [ch EXCEPT !.mute = IF muted THEN ~ch.mute ELSE ch.mute]

Channel_set_mute(ch, muted) == [ch EXCEPT !.mute = muted]

Channel_set_solo(ch, solo) == [ch EXCEPT !.solo = solo]

Channel_set_pan(ch, pan) == [ch EXCEPT !.pan = Clamp(pan, 0 - PanMax, PanMax)]

Channel_set_gain(ch, gain) == [ch EXCEPT !.gain = Clamp(gain, 0 - GainMaxDb, GainMaxDb)]

Channel_set_name(ch, name) == [ch EXCEPT !.name = name]

(***************************************************************************)
(* RoutingMatrix (mixer/routing.rs)                                        *)
(***************************************************************************)
RoutingMatrix_new ==
    [i \in 0..(input_count - 1) |->
        [o \in 0..(output_count - 1) |-> IF i = o THEN RoutingMax ELSE 0]]

\* Mutant: the index check is off by one.
RoutingMatrix_set_off_by_one(m, input, output, gain) ==
    IF input > input_count \/ output > output_count
    THEN <<FALSE, m>>
    ELSE <<TRUE, [i \in DOMAIN m |-> [o \in DOMAIN m[i] |->
                    IF i = input /\ o = output THEN Clamp(gain, 0, RoutingMax) ELSE m[i][o]]]>>

\* Mutant: only the upper end of the gain is limited.
RoutingMatrix_set_upper_only(m, input, output, gain) ==
    IF input >= input_count \/ output >= output_count
    THEN <<FALSE, m>>
    ELSE <<TRUE, [m EXCEPT ![input][output] = IF gain > RoutingMax THEN RoutingMax ELSE gain]>>

\* RoutingMatrix::set: <<accepted, matrix afterwards>>
RoutingMatrix_set(m, input, output, gain) ==
    IF input >= input_count \/ output >= output_count
    THEN <<FALSE, m>>
    ELSE <<TRUE, [m EXCEPT ![input][output] = Clamp(gain, 0, RoutingMax)]>>

RoutingMatrix_get(m, input, output) ==
    IF input >= input_count \/ output >= output_count
    THEN None
    ELSE Some(m[input][output])

RoutingMatrix_clear(m) == [i \in DOMAIN m |-> [o \in DOMAIN m[i] |-> 0]]

Min(a, b) == IF a < b THEN a ELSE b

RoutingMatrix_set_unity(m) ==
    LET c == RoutingMatrix_clear(m)
    IN  [i \in DOMAIN c |->
            [o \in DOMAIN c[i] |->
                IF i = o /\ i < Min(input_count, output_count) THEN RoutingMax ELSE c[i][o]]]

RoutingMatrix_set_stereo_pair(m, left_in, left_out) ==
    LET right_in == left_in + 1
        right_out == left_out + 1
    IN  IF right_in < input_count /\ right_out < output_count
        THEN [m EXCEPT ![left_in][left_out] = RoutingMax,
                       ![right_in][right_out] = RoutingMax]
        ELSE m

(***************************************************************************)
(* Mixer (mixer/mod.rs).  A mixer value is the record of the three locked  *)
(* fields; every setter runs under the write lock and is one atomic step.  *)
(* A setter returns <<Option<ChannelState>, mixer afterwards>>.            *)
(***************************************************************************)
Mixer_new ==
    [channels |-> [i \in 0..(input_count - 1) |-> Channel_new(i, <<"CH", i + 1>>)],
     routing |-> RoutingMatrix_new,
     solo_active |-> <<>>]

Mixer_get_channel(mx, id) ==
    IF id \in DOMAIN mx.channels THEN Some(Channel_state(mx.channels[id])) ELSE None

\* Mutant: the id is reduced modulo the number of channels instead of checked.
Mixer_set_fader_wrapping(mx, id, value) ==
    LET w == id % input_count
        ch == Channel_set_fader(mx.channels[w], value)
    IN  <<Some(Channel_state(ch)), [mx EXCEPT !.channels[w] = ch]>>

Mixer_set_fader(mx, id, value) ==
    IF id \in DOMAIN mx.channels
    THEN LET ch == Channel_set_fader(mx.channels[id], value)
         IN  <<Some(Channel_state(ch)), [mx EXCEPT !.channels[id] = ch]>>
    ELSE <<None, mx>>

Mixer_set_mute(mx, id, muted) ==
    IF id \in DOMAIN mx.channels
    THEN LET ch == Channel_set_mute(mx.channels[id], muted)
         IN  <<Some(Channel_state(ch)), [mx EXCEPT !.channels[id] = ch]>>
    ELSE <<None, mx>>

Contains(s, x) == \E i \in 1..Len(s) : s[i] = x
Retain(s, x) == SelectSeq(s, LAMBDA y : y # x)

Mixer_set_solo(mx, id, solo) ==
    IF id \in DOMAIN mx.channels
    THEN LET ch == Channel_set_solo(mx.channels[id], solo)
             sa == IF solo
                   THEN IF Contains(mx.solo_active, id)
                        THEN mx.solo_active
                        ELSE Append(mx.solo_active, id)
                   ELSE Retain(mx.solo_active, id)
         IN  <<Some(Channel_state(ch)),
               [mx EXCEPT !.channels[id] = ch, !.solo_active = sa]>>
    ELSE <<None, mx>>

Mixer_set_pan(mx, id, pan) ==
    IF id \in DOMAIN mx.channels
    THEN LET ch == Channel_set_pan(mx.channels[id], pan)
         IN  <<Some(Channel_state(ch)), [mx EXCEPT !.channels[id] = ch]>>
    ELSE <<None, mx>>

Mixer_set_channel_name(mx, id, name) ==
    IF id \in DOMAIN mx.channels
    THEN LET ch == Channel_set_name(mx.channels[id], name)
         IN  <<Some(Channel_state(ch)), [mx EXCEPT !.channels[id] = ch]>>
    ELSE <<None, mx>>

\* Mixer::set_routing: <<accepted, mixer afterwards>>
Mixer_set_routing(mx, input, output, gain) ==
    LET r == RoutingMatrix_set(mx.routing, input, output, gain)
    IN  <<r[1], [mx EXCEPT !.routing = r[2]]>>

Mixer_get_routing(mx) == mx.routing

Mixer_get_all_channels(mx) == [i \in DOMAIN mx.channels |-> Channel_state(mx.channels[i])]

Mixer_get_state(mx) ==
    [channels |-> Mixer_get_all_channels(mx),
     routing |-> Mixer_get_routing(mx),
     input_count |-> input_count,
     output_count |-> output_count]

(***************************************************************************)
(* recall_scene (api/routes.rs): a stored scene is applied through the     *)
(* mixer's setters, channel by channel and cell by cell.  A scene comes    *)
(* from a file, so its values and its size are arbitrary.                  *)
(***************************************************************************)
Scenes ==
    { [channels |-> << [id |-> 0, fader |-> 200, mute |-> TRUE, solo |-> TRUE, pan |-> -200],
                       [id |-> input_count, fader |-> 50, mute |-> TRUE, solo |-> TRUE, pan |-> 50] >>,
       routing |-> << <<150, -50, 30>>, <<0, 50, 0>>, <<100, 100, 100>> >>],
      [channels |-> << [id |-> input_count - 1, fader |-> -50, mute |-> FALSE, solo |-> FALSE, pan |-> 150] >>,
       routing |-> << <<0>>, <<250, 50>> >>] }

RECURSIVE ApplySceneChannels(_, _)
ApplySceneChannels(mx, chs) ==
    IF chs = <<>> THEN mx
    ELSE LET c == Head(chs)
             m1 == Mixer_set_fader(mx, c.id, c.fader)[2]
             m2 == Mixer_set_mute(m1, c.id, c.mute)[2]
             m3 == Mixer_set_solo(m2, c.id, c.solo)[2]
             m4 == Mixer_set_pan(m3, c.id, c.pan)[2]
         IN  ApplySceneChannels(m4, Tail(chs))

RECURSIVE ApplySceneRow(_, _, _, _)
ApplySceneRow(mx, input, row, output) ==
    IF output >= Len(row) THEN mx
    ELSE ApplySceneRow(Mixer_set_routing(mx, input, output, row[output + 1])[2],
                       input, row, output + 1)

RECURSIVE ApplySceneRouting(_, _, _)
ApplySceneRouting(mx, rows, input) ==
    IF input >= Len(rows) THEN mx
    ELSE ApplySceneRouting(ApplySceneRow(mx, input, rows[input + 1], 0), rows, input + 1)

recall_scene(mx, scene) ==
    ApplySceneRouting(ApplySceneChannels(mx, scene.channels), scene.routing, 0)

(***************************************************************************)
(* Client protocol (shared/protocol/src/messages.rs)                       *)
(***************************************************************************)
\* Values clients put in their commands.
WsChannels == {0, input_count}
WsFaderInputs == {50, 200}
WsPanInputs == {-200}
WsGainInputs == {6}
WsRoutingInputs == {0, input_count}
WsRoutingOutputs == {0, output_count}
WsRoutingGains == {150}

SetterTypes == {"set_fader", "set_mute", "set_solo", "set_pan", "set_channel_name"}
QueryTypes == {"hello", "ping", "get_state", "get_server_info",
               "get_aes67_status", "get_aes67_streams"}
\* The commands handle_client_message has no arm for.
NyiTypes == {"set_channel_color", "save_scene", "recall_scene", "delete_scene", "get_scenes"}
\* Text frames serde_json cannot decode as a ClientMessage.
MalformedTexts == {<<"{not json">>}

ClientMessage ==
    [type : {"set_fader"}, channel : WsChannels, value : WsFaderInputs]
    \cup [type : {"set_mute"}, channel : WsChannels, muted : {TRUE}]
    \cup [type : {"set_solo"}, channel : WsChannels, solo : {TRUE}]
    \cup [type : {"set_pan"}, channel : WsChannels, value : WsPanInputs]
    \cup [type : {"set_gain"}, channel : WsChannels, value : WsGainInputs]
    \cup [type : {"set_channel_name"}, channel : WsChannels, name : NameInputs]
    \cup [type : {"set_routing"}, input : WsRoutingInputs, output : WsRoutingOutputs,
          gain : WsRoutingGains]
    \cup [type : QueryTypes]
    \cup [type : {"recall_scene"}, id : {1}]
    \cup [type : {"get_scenes"}]

\* ServerMessage constructors
ChannelUpdated(st) == [type |-> "channel_updated", channel |-> st]
RoutingUpdated(i, o, g) == [type |-> "routing_updated", input |-> i, output |-> o, gain |-> g]
ErrorMsg(code) == [type |-> "error", code |-> code]
ClientCountChanged(n) == [type |-> "client_count_changed", count |-> n]
WelcomeMsg(n, st) == [type |-> "welcome", client_count |-> n, state |-> st]

\* Option::map(ServerMessage::ChannelUpdated)
MapChannelUpdated(o) == IF IsSome(o) THEN Some(ChannelUpdated(Unwrap(o))) ELSE None

(***************************************************************************)
(* handle_client_message (api/websocket.rs), arm by arm.  Each arm yields  *)
(* the reply, the broadcast flag and the mixer afterwards.                 *)
(***************************************************************************)
Result(resp, bcast, mx) == [resp |-> resp, bcast |-> bcast, mixer |-> mx]

Arm_Hello(msg, mx, cc) == Result(None, FALSE, mx)

Arm_Ping(msg, mx, cc) == Result(Some([type |-> "pong"]), FALSE, mx)

\* Mutant: the state reply is flagged for broadcast.
Arm_GetState_broadcast(msg, mx, cc) ==
    Result(Some([type |-> "state", state |-> Mixer_get_state(mx)]), TRUE, mx)

Arm_GetState(msg, mx, cc) ==
    Result(Some([type |-> "state", state |-> Mixer_get_state(mx)]), FALSE, mx)

Arm_GetServerInfo(msg, mx, cc) ==
    Result(Some([type |-> "server_info", client_count |-> cc]), FALSE, mx)

Arm_SetFader(msg, mx, cc) ==
    LET r == Mixer_set_fader(mx, msg.channel, msg.value)
    IN  Result(MapChannelUpdated(r[1]), TRUE, r[2])

Arm_SetMute(msg, mx, cc) ==
    LET r == Mixer_set_mute(mx, msg.channel, msg.muted)
    IN  Result(MapChannelUpdated(r[1]), TRUE, r[2])

Arm_SetSolo(msg, mx, cc) ==
    LET r == Mixer_set_solo(mx, msg.channel, msg.solo)
    IN  Result(MapChannelUpdated(r[1]), TRUE, r[2])

Arm_SetPan(msg, mx, cc) ==
    LET r == Mixer_set_pan(mx, msg.channel, msg.value)
    IN  Result(MapChannelUpdated(r[1]), TRUE, r[2])

\* The value is ignored ("TODO: set_gain implementieren"): the arm reads the channel.
Arm_SetGain(msg, mx, cc) ==
    Result(MapChannelUpdated(Mixer_get_channel(mx, msg.channel)), TRUE, mx)

Arm_SetChannelName(msg, mx, cc) ==
    LET r == Mixer_set_channel_name(mx, msg.channel, msg.name)
    IN  Result(MapChannelUpdated(r[1]), TRUE, r[2])

\* The reply carries the gain of the request, not the stored one.
Arm_SetRouting(msg, mx, cc) ==
    LET r == Mixer_set_routing(mx, msg.input, msg.output, msg.gain)
    IN  IF r[1]
        THEN Result(Some(RoutingUpdated(msg.input, msg.output, msg.gain)), TRUE, r[2])
        ELSE Result(Some(ErrorMsg("INVALID_ROUTING")), FALSE, r[2])

\* The payload (PTP and SAP state) is not modelled.
Arm_GetAes67Status(msg, mx, cc) == Result(Some([type |-> "aes67_status"]), FALSE, mx)

Arm_GetAes67Streams(msg, mx, cc) == Result(Some([type |-> "aes67_streams"]), FALSE, mx)

\* Mutant: the default arm flags its error for broadcast.
Arm_Default_broadcast(msg, mx, cc) == Result(Some(ErrorMsg("NOT_IMPLEMENTED")), TRUE, mx)

Arm_Default(msg, mx, cc) == Result(Some(ErrorMsg("NOT_IMPLEMENTED")), FALSE, mx)

handle_client_message(msg, mx, cc) ==
    CASE msg.type = "hello" -> Arm_Hello(msg, mx, cc)
      [] msg.type = "ping" -> Arm_Ping(msg, mx, cc)
      [] msg.type = "get_state" -> Arm_GetState(msg, mx, cc)
      [] msg.type = "get_server_info" -> Arm_GetServerInfo(msg, mx, cc)
      [] msg.type = "set_fader" -> Arm_SetFader(msg, mx, cc)
      [] msg.type = "set_mute" -> Arm_SetMute(msg, mx, cc)
      [] msg.type = "set_solo" -> Arm_SetSolo(msg, mx, cc)
      [] msg.type = "set_pan" -> Arm_SetPan(msg, mx, cc)
      [] msg.type = "set_gain" -> Arm_SetGain(msg, mx, cc)
      [] msg.type = "set_channel_name" -> Arm_SetChannelName(msg, mx, cc)
      [] msg.type = "set_routing" -> Arm_SetRouting(msg, mx, cc)
      [] msg.type = "get_aes67_status" -> Arm_GetAes67Status(msg, mx, cc)
      [] msg.type = "get_aes67_streams" -> Arm_GetAes67Streams(msg, mx, cc)
      [] OTHER -> Arm_Default(msg, mx, cc)

(***************************************************************************)
(* JitterBuffer (network_audio/rtp.rs).  Samples are f32 in the code; the   *)
(* model uses integers, 0 for the silence 0.0.                             *)
(***************************************************************************)
JitterBuffer_new ==
    [buffer |-> [i \in 0..(JitterCapacity - 1) |-> 0], read_pos |-> 0, write_pos |-> 0]

\* Mutant: the wrapped case is not counted.
JitterBuffer_available_no_wrap(b) ==
    IF b.write_pos >= b.read_pos THEN b.write_pos - b.read_pos ELSE 0

JitterBuffer_available(b) ==
    IF b.write_pos >= b.read_pos
    THEN b.write_pos - b.read_pos
    ELSE JitterCapacity - b.read_pos + b.write_pos

\* Mutant: the collision with the read position is not handled.
JitterBuffer_push_one_no_drop(b, sample) ==
    [buffer |-> [b.buffer EXCEPT ![b.write_pos] = sample],
     write_pos |-> (b.write_pos + 1) % JitterCapacity,
     read_pos |-> b.read_pos]

\* One iteration of the loop of push_samples.
JitterBuffer_push_one(b, sample) ==
    LET w == (b.write_pos + 1) % JitterCapacity
    IN  [buffer |-> [b.buffer EXCEPT ![b.write_pos] = sample],
         write_pos |-> w,
         read_pos |-> IF w = b.read_pos THEN (b.read_pos + 1) % JitterCapacity ELSE b.read_pos]

RECURSIVE JitterBuffer_push_samples(_, _)
JitterBuffer_push_samples(b, samples) ==
    IF samples = <<>> THEN b
    ELSE JitterBuffer_push_samples(JitterBuffer_push_one(b, Head(samples)), Tail(samples))

\* pop_samples(buffer) with buffer.len() = len: the number read, the slice as
\* it is afterwards, and the jitter buffer afterwards.
JitterBuffer_pop_samples(b, len) ==
    LET available == JitterBuffer_available(b)
        to_read == Min(len, available)
    IN  [ret |-> to_read,
         out |-> [i \in 1..len |->
                    IF i <= to_read
                    THEN b.buffer[(b.read_pos + (i - 1)) % JitterCapacity]
                    ELSE 0],
         jb |-> [b EXCEPT !.read_pos = (b.read_pos + to_read) % JitterCapacity]]

(***************************************************************************)
(* Engine ring buffer (audio/engine.rs): Producer, Consumer and the Vec    *)
(* both share behind a std RwLock.  The position counters are usize and    *)
(* stay far below their wrap within the bounds of the model.               *)
(***************************************************************************)
create_ring_buffer ==
    [buffer |-> [i \in 0..(RingCapacity - 1) |-> 0], write_pos |-> 0, read_pos |-> 0,
     lock |-> "free", pending |-> 0]

\* Producer::try_push with the write lock held.
Producer_try_push(r, value) ==
    LET pos == r.write_pos % RingCapacity
    IN  [r EXCEPT !.write_pos = @ + 1, !.buffer[pos] = value]

\* Consumer::try_pop with the read lock held: <<value, ring afterwards>>
Consumer_try_pop(r) ==
    LET pos == r.read_pos % RingCapacity
    IN  <<r.buffer[pos], [r EXCEPT !.read_pos = @ + 1]>>

(***************************************************************************)
(* State                                                                   *)
(***************************************************************************)
Clients == 1..NumClients
\* the sessions the server has room for: those of Clients and one more, which
\* connects only where three sessions are needed
Sessions == 1..(NumClients + 1)

(***************************************************************************)
(* PtpClock (network_audio/ptp.rs).  Offsets are integer nanoseconds       *)
(* (i64).  A timestamp, i64 nanoseconds since the epoch, is written        *)
(* [sec, ns] for sec * 10^9 + ns; the Instant of the last sync is kept in  *)
(* seconds.                                                                *)
(***************************************************************************)
HoldoverSecs == 3
NanosPerSec == 1000000000

Timestamp(sec, ns) == [sec |-> sec, ns |-> ns]
\* master_time - local_time
TimeDiff(a, b) == (a.sec - b.sec) * NanosPerSec + (a.ns - b.ns)

\* i64 division truncates toward zero
TruncDiv(a, b) == IF a >= 0 THEN a \div b ELSE 0 - ((0 - a) \div b)

PtpClock_new ==
    [state |-> "Initializing", running |-> FALSE, offset_ns |-> 0,
     stats |-> [offset_ns |-> 0, sync_count |-> 0, clock_accuracy_ns |-> 0],
     last_sync |-> None]

PtpClock_is_synchronized(c) == c.state \in {"Slave", "Master"}

\* the locals of run_ptp_loop; "none": the thread has not been spawned.  t1 is
\* written just before every call of process_sync that reads it, so it is a
\* local of the step that receives the timestamp.  Two history fields follow:
\* applied counts the clock updates made from the Sync received last (0, 1 or
\* 2 for more than one), stray
\* records a Follow_Up that changed the clock without matching a received Sync.
Worker_new == [pc |-> "none", t2 |-> None, sync_sequence |-> 0,
               applied |-> 0, stray |-> FALSE]

\* the low-pass filter of process_sync: a stored offset of 0 is replaced by the sample
filtered(current, offset) ==
    IF current = 0 THEN offset ELSE TruncDiv(current * 7 + offset, 8)

\* Mutant: the state is left alone.
process_sync_no_slave(c, t1, t2, at) ==
    IF IsSome(t1) /\ IsSome(t2)
    THEN LET offset == TimeDiff(Unwrap(t1), Unwrap(t2))
             f == filtered(c.offset_ns, offset)
         IN  [c EXCEPT !.offset_ns = f,
                       !.stats = [offset_ns |-> f, sync_count |-> c.stats.sync_count + 1,
                                  clock_accuracy_ns |-> IF offset >= c.offset_ns
                                                        THEN offset - c.offset_ns
                                                        ELSE c.offset_ns - offset],
                       !.last_sync = Some(at)]
    ELSE c

\* process_sync(t1, t2, ...) at time "at": nothing unless both are known
process_sync(c, t1, t2, at) ==
    IF IsSome(t1) /\ IsSome(t2)
    THEN LET offset == TimeDiff(Unwrap(t1), Unwrap(t2))
             f == filtered(c.offset_ns, offset)
         IN  [c EXCEPT !.offset_ns = f,
                       !.stats = [offset_ns |-> f, sync_count |-> c.stats.sync_count + 1,
                                  clock_accuracy_ns |-> IF offset >= c.offset_ns
                                                        THEN offset - c.offset_ns
                                                        ELSE c.offset_ns - offset],
                       !.last_sync = Some(at),
                       !.state = "Slave"]
    ELSE c

\* Mutant: the offset is cleared on entering holdover.
check_sync_timeout_clearing(c, at) ==
    IF IsSome(c.last_sync) /\ at - Unwrap(c.last_sync) > HoldoverSecs /\ c.state = "Slave"
    THEN [c EXCEPT !.state = "Holdover", !.offset_ns = 0]
    ELSE c

\* the check at the end of a loop iteration: holdover after 3 s without a sync
check_sync_timeout(c, at) ==
    IF IsSome(c.last_sync) /\ at - Unwrap(c.last_sync) > HoldoverSecs /\ c.state = "Slave"
    THEN [c EXCEPT !.state = "Holdover"]
    ELSE c

(***************************************************************************)
(* Bytes and bit operations.  A u8 is 0..255, a u16 is 0..65535; a u32 is  *)
(* written [hi, lo] for hi * 2^16 + lo, two u16 halves.                    *)
(***************************************************************************)
RECURSIVE BitAnd(_, _)
BitAnd(a, b) ==
    IF a = 0 \/ b = 0 THEN 0
    ELSE (IF a % 2 = 1 /\ b % 2 = 1 THEN 1 ELSE 0) + 2 * BitAnd(a \div 2, b \div 2)

RECURSIVE BitOr(_, _)
BitOr(a, b) ==
    IF a = 0 THEN b ELSE IF b = 0 THEN a
    ELSE (IF a % 2 = 1 \/ b % 2 = 1 THEN 1 ELSE 0) + 2 * BitOr(a \div 2, b \div 2)

RECURSIVE Pow2(_)
Pow2(n) == IF n = 0 THEN 1 ELSE 2 * Pow2(n - 1)

\* u8 << n and u8 >> n
Shl8(v, n) == (v * Pow2(n)) % 256
Shr(v, n) == v \div Pow2(n)
BoolAsU8(b) == IF b THEN 1 ELSE 0

U32(hi, lo) == [hi |-> hi, lo |-> lo]
u16_to_be_bytes(v) == <<v \div 256, v % 256>>
u16_from_be_bytes(b) == b[1] * 256 + b[2]
u32_to_be_bytes(v) == u16_to_be_bytes(v.hi) \o u16_to_be_bytes(v.lo)
u32_from_be_bytes(b) == U32(u16_from_be_bytes(<<b[1], b[2]>>), u16_from_be_bytes(<<b[3], b[4]>>))

(***************************************************************************)
(* RtpHeader (network_audio/rtp.rs)                                        *)
(***************************************************************************)
RtpHeaderLen == 12

RtpHeader_to_bytes(h) ==
    <<BitOr(BitOr(BitOr(Shl8(h.version, 6), Shl8(BoolAsU8(h.padding), 5)),
                  Shl8(BoolAsU8(h.extension), 4)),
            BitAnd(h.csrc_count, 15)),
      BitOr(Shl8(BoolAsU8(h.marker), 7), BitAnd(h.payload_type, 127))>>
    \o u16_to_be_bytes(h.sequence)
    \o u32_to_be_bytes(h.timestamp)
    \o u32_to_be_bytes(h.ssrc)

\* Mutant: the marker bit is read as part of the payload type.
RtpHeader_from_bytes_wide_pt(data) ==
    IF Len(data) < RtpHeaderLen THEN None
    ELSE LET version == BitAnd(Shr(data[1], 6), 3)
         IN  IF version # 2 THEN None
             ELSE Some([version |-> version,
                        padding |-> BitAnd(data[1], 32) # 0,
                        extension |-> BitAnd(data[1], 16) # 0,
                        csrc_count |-> BitAnd(data[1], 15),
                        marker |-> BitAnd(data[2], 128) # 0,
                        payload_type |-> data[2],
                        sequence |-> u16_from_be_bytes(<<data[3], data[4]>>),
                        timestamp |-> u32_from_be_bytes(SubSeq(data, 5, 8)),
                        ssrc |-> u32_from_be_bytes(SubSeq(data, 9, 12))])

RtpHeader_from_bytes(data) ==
    IF Len(data) < RtpHeaderLen THEN None
    ELSE LET version == BitAnd(Shr(data[1], 6), 3)
         IN  IF version # 2 THEN None
             ELSE Some([version |-> version,
                        padding |-> BitAnd(data[1], 32) # 0,
                        extension |-> BitAnd(data[1], 16) # 0,
                        csrc_count |-> BitAnd(data[1], 15),
                        marker |-> BitAnd(data[2], 128) # 0,
                        payload_type |-> BitAnd(data[2], 127),
                        sequence |-> u16_from_be_bytes(<<data[3], data[4]>>),
                        timestamp |-> u32_from_be_bytes(SubSeq(data, 5, 8)),
                        ssrc |-> u32_from_be_bytes(SubSeq(data, 9, 12))])

(***************************************************************************)
(* Text.  A string is the sequence of its bytes (ASCII codes); the         *)
(* operators below are those of str that sap.rs uses.                      *)
(***************************************************************************)
Whitespace == {9, 10, 11, 12, 13, 32}
IsDigit(b) == b >= 48 /\ b <= 57

RECURSIVE DigitsOf(_)
\* Display of an unsigned integer
DigitsOf(n) == IF n < 10 THEN <<48 + n>> ELSE DigitsOf(n \div 10) \o <<48 + (n % 10)>>

RECURSIVE DigitsValue(_, _)
DigitsValue(t, acc) == IF t = <<>> THEN acc ELSE DigitsValue(Tail(t), acc * 10 + (t[1] - 48))

\* str::parse for an unsigned integer type with maximum max: an optional "+",
\* then one or more digits; anything else, or a value above max, is an error
ParseUnsigned(t, max) ==
    LET body == IF t # <<>> /\ t[1] = 43 THEN Tail(t) ELSE t
    IN  IF body = <<>> \/ \E i \in 1..Len(body) : ~IsDigit(body[i]) THEN None
        ELSE IF Len(body) > 9 THEN None
        ELSE IF DigitsValue(body, 0) > max THEN None
        ELSE Some(DigitsValue(body, 0))

StartsWith(t, prefix) == Len(t) >= Len(prefix) /\ SubSeq(t, 1, Len(prefix)) = prefix
\* &t[n..]
From(t, n) == SubSeq(t, n + 1, Len(t))
ContainsText(t, sub) == \E i \in 1..(Len(t) - Len(sub) + 1) : SubSeq(t, i, i + Len(sub) - 1) = sub

RECURSIVE TrimStart(_)
TrimStart(t) == IF t # <<>> /\ t[1] \in Whitespace THEN TrimStart(Tail(t)) ELSE t
RECURSIVE TrimEnd(_)
TrimEnd(t) == IF t # <<>> /\ t[Len(t)] \in Whitespace THEN TrimEnd(SubSeq(t, 1, Len(t) - 1)) ELSE t
\* str::trim
Trim(t) == TrimEnd(TrimStart(t))

\* str::split for a set of separator bytes: the parts between separators in
\* order, empty ones included
SplitAt(t, seps) ==
    LET cuts == {i \in 1..Len(t) : t[i] \in seps}
        starts == {1} \cup {i + 1 : i \in cuts}
        start(k) == CHOOSE b \in starts : Cardinality({x \in starts : x < b}) = k - 1
        stop(b) == CHOOSE e \in (cuts \cup {Len(t) + 1}) :
                       e >= b /\ \A x \in cuts : x >= b => e <= x
    IN  [k \in 1..Cardinality(starts) |-> SubSeq(t, start(k), stop(start(k)) - 1)]

Split(t, sep) == SplitAt(t, {sep})
\* str::split_whitespace: the non-empty parts between whitespace
SplitWhitespace(t) == SelectSeq(SplitAt(t, Whitespace), LAMBDA part : part # <<>>)

\* str::lines: split at "\n", a final empty line is dropped, a "\r" before the
\* "\n" is dropped
Lines(t) ==
    LET parts == Split(t, 10)
        kept == IF parts[Len(parts)] = <<>> THEN SubSeq(parts, 1, Len(parts) - 1) ELSE parts
        strip(l) == IF l # <<>> /\ l[Len(l)] = 13 THEN SubSeq(l, 1, Len(l) - 1) ELSE l
    IN  [i \in 1..Len(kept) |-> strip(kept[i])]

\* Display of an Ipv4Addr, written <<a, b, c, d>>
FormatIpv4(a) ==
    DigitsOf(a[1]) \o <<46>> \o DigitsOf(a[2]) \o <<46>> \o DigitsOf(a[3]) \o <<46>> \o DigitsOf(a[4])

\* Ipv4Addr::from_str: four decimal octets, no leading zero, each at most 255
ParseOctet(t) ==
    IF t = <<>> \/ Len(t) > 3 \/ (\E i \in 1..Len(t) : ~IsDigit(t[i])) THEN None
    ELSE IF Len(t) > 1 /\ t[1] = 48 THEN None
    ELSE IF DigitsValue(t, 0) > 255 THEN None
    ELSE Some(DigitsValue(t, 0))

ParseIpv4(t) ==
    LET parts == Split(t, 46)
    IN  IF Len(parts) # 4 \/ \E i \in 1..4 : ParseOctet(parts[i]) = None THEN None
        ELSE Some([i \in 1..4 |-> Unwrap(ParseOctet(parts[i]))])

\* format!("{:.3}", us as f32 / 1000.0), for packet times that f32 holds exactly
FormatPtime(us) ==
    LET frac == us % 1000
    IN  DigitsOf(us \div 1000) \o <<46>> \o
        (IF frac < 10 THEN <<48, 48>> ELSE IF frac < 100 THEN <<48>> ELSE <<>>) \o DigitsOf(frac)

\* (parse::<f32>() * 1000.0) as u32, for decimal numbers "i" and "i.f"
ParsePtime(t) ==
    LET parts == Split(t, 46)
        int == ParseUnsigned(parts[1], 1000000)
        f == IF Len(parts) = 2 THEN SubSeq(parts[2] \o <<48, 48, 48>>, 1, 3) ELSE <<48, 48, 48>>
    IN  IF Len(parts) > 2 \/ int = None \/ t[1] = 43 \/ (\E i \in 1..3 : ~IsDigit(f[i])) THEN None
        ELSE Some(Unwrap(int) * 1000 + DigitsValue(f, 0))

(***************************************************************************)
(* SDP (network_audio/sap.rs: parse_sdp, generate_sdp)                     *)
(***************************************************************************)
U8Max == 255
U16Max == 65535
\* the model's integers end at 2^31 - 1; sample rates are far below it
U32Max == 2147483647
DefaultPort == 5004
DefaultChannels == 2
DefaultSampleRate == 48000
DefaultBits == 24
DefaultPtimeUs == 1000
PayloadType == 97
MulticastTtl == 64

CRLF == <<13, 10>>
\* "s=", "o=", "c=", "m=audio ", "a=rtpmap:", "a=ptime:"
Txt_s == <<115, 61>>
Txt_o == <<111, 61>>
Txt_c == <<99, 61>>
Txt_m_audio == <<109, 61, 97, 117, 100, 105, 111, 32>>
Txt_a_rtpmap == <<97, 61, 114, 116, 112, 109, 97, 112, 58>>
Txt_a_ptime == <<97, 61, 112, 116, 105, 109, 101, 58>>
\* "L24/", "L16/", "L24"
Txt_L24_slash == <<76, 50, 52, 47>>
Txt_L16_slash == <<76, 49, 54, 47>>
Txt_L24 == <<76, 50, 52>>
\* "AES67 Stream "
Txt_default_name == <<65, 69, 83, 54, 55, 32, 83, 116, 114, 101, 97, 109, 32>>
\* "v=0", "o=- ", " IN IP4 ", "c=IN IP4 ", "t=0 0", " RTP/AVP ", " L"
Txt_v0 == <<118, 61, 48>>
Txt_o_dash == <<111, 61, 45, 32>>
Txt_in_ip4 == <<32, 73, 78, 32, 73, 80, 52, 32>>
Txt_c_in_ip4 == <<99, 61, 73, 78, 32, 73, 80, 52, 32>>
Txt_t00 == <<116, 61, 48, 32, 48>>
Txt_rtp_avp == <<32, 82, 84, 80, 47, 65, 86, 80, 32>>
Txt_space_L == <<32, 76>>
\* "a=ts-refclk:ptp=IEEE1588-2008:00-00-00-00-00-00-00-00:0", "a=mediaclk:direct=0"
Txt_ts_refclk == <<97, 61, 116, 115, 45, 114, 101, 102, 99, 108, 107, 58, 112, 116, 112, 61, 73, 69, 69, 69, 49, 53, 56, 56, 45, 50, 48, 48, 56, 58, 48, 48, 45, 48, 48, 45, 48, 48, 45, 48, 48, 45, 48, 48, 45, 48, 48, 45, 48, 48, 45, 48, 48, 58, 48>>
Txt_mediaclk == <<97, 61, 109, 101, 100, 105, 97, 99, 108, 107, 58, 100, 105, 114, 101, 99, 116, 61, 48>>

\* the locals of parse_sdp before the first line
ParseSdpInit(sdp, default_origin) ==
    [name |-> <<>>, session_id |-> <<>>, origin |-> default_origin,
     multicast_addr |-> <<0, 0, 0, 0>>, port |-> DefaultPort, channels |-> DefaultChannels,
     sample_rate |-> DefaultSampleRate, bits_per_sample |-> DefaultBits,
     ptime_us |-> DefaultPtimeUs, direction |-> "Send", sdp |-> sdp]

OrElse(o, default) == IF IsSome(o) THEN Unwrap(o) ELSE default

\* one turn of the loop over the lines
ParseSdpLine(acc, raw) ==
    LET line == Trim(raw)
    IN  IF StartsWith(line, Txt_s) THEN [acc EXCEPT !.name = From(line, 2)]
        ELSE IF StartsWith(line, Txt_o) THEN
            LET parts == SplitWhitespace(From(line, 2))
            IN  IF Len(parts) >= 6
                THEN [acc EXCEPT !.session_id = parts[1] \o <<95>> \o parts[2],
                                 !.origin = parts[6]]
                ELSE acc
        ELSE IF StartsWith(line, Txt_c) THEN
            LET parts == SplitWhitespace(From(line, 2))
            IN  IF Len(parts) >= 3 /\ IsSome(ParseIpv4(Split(parts[3], 47)[1]))
                THEN [acc EXCEPT !.multicast_addr = Unwrap(ParseIpv4(Split(parts[3], 47)[1]))]
                ELSE acc
        ELSE IF StartsWith(line, Txt_m_audio) THEN
            LET parts == SplitWhitespace(From(line, 8))
            IN  IF Len(parts) >= 1
                THEN [acc EXCEPT !.port = OrElse(ParseUnsigned(parts[1], U16Max), DefaultPort)]
                ELSE acc
        ELSE IF StartsWith(line, Txt_a_rtpmap) THEN
            IF ContainsText(line, Txt_L24_slash) \/ ContainsText(line, Txt_L16_slash)
            THEN LET parts == Split(line, 47)
                 IN  [acc EXCEPT
                        !.sample_rate = IF Len(parts) >= 2
                                        THEN OrElse(ParseUnsigned(parts[2], U32Max), DefaultSampleRate)
                                        ELSE acc.sample_rate,
                        !.channels = IF Len(parts) >= 3
                                     THEN OrElse(ParseUnsigned(parts[3], U8Max), DefaultChannels)
                                     ELSE acc.channels,
                        !.bits_per_sample = IF ContainsText(line, Txt_L24) THEN 24 ELSE 16]
            ELSE acc
        ELSE IF StartsWith(line, Txt_a_ptime) THEN
            IF From(line, 8) # <<>> /\ IsSome(ParsePtime(From(line, 8)))
            THEN [acc EXCEPT !.ptime_us = Unwrap(ParsePtime(From(line, 8)))]
            ELSE acc
        ELSE acc

RECURSIVE ParseSdpLines(_, _, _)
ParseSdpLines(acc, lines, i) ==
    IF i > Len(lines) THEN acc ELSE ParseSdpLines(ParseSdpLine(acc, lines[i]), lines, i + 1)

\* parse_sdp: None without a session id; an empty name is replaced
parse_sdp(sdp, default_origin) ==
    LET acc == ParseSdpLines(ParseSdpInit(sdp, default_origin), Lines(sdp), 1)
        named == IF acc.name = <<>>
                 THEN [acc EXCEPT !.name = Txt_default_name \o acc.session_id] ELSE acc
    IN  IF acc.session_id = <<>> THEN None ELSE Some(named)

\* generate_sdp, with the seconds since the epoch as the session version
generate_sdp(stream, session_version) ==
    Txt_v0 \o CRLF
    \o Txt_o_dash \o stream.session_id \o <<32>> \o DigitsOf(session_version)
       \o Txt_in_ip4 \o stream.origin \o CRLF
    \o Txt_s \o stream.name \o CRLF
    \o Txt_c_in_ip4 \o FormatIpv4(stream.multicast_addr) \o <<47>> \o DigitsOf(MulticastTtl) \o CRLF
    \o Txt_t00 \o CRLF
    \o Txt_m_audio \o DigitsOf(stream.port) \o Txt_rtp_avp \o DigitsOf(PayloadType) \o CRLF
    \o Txt_a_rtpmap \o DigitsOf(PayloadType) \o Txt_space_L \o DigitsOf(stream.bits_per_sample)
       \o <<47>> \o DigitsOf(stream.sample_rate) \o <<47>> \o DigitsOf(stream.channels) \o CRLF
    \o Txt_a_ptime \o FormatPtime(stream.ptime_us) \o CRLF
    \o Txt_ts_refclk \o CRLF
    \o Txt_mediaclk \o CRLF

(***************************************************************************)
(* SAP (network_audio/sap.rs: build_sap_packet, parse_sap_packet and the   *)
(* map of discovered streams)                                              *)
(***************************************************************************)
\* 0x20: V=1; 0x04: T, the deletion bit; 0x10: A, the address type bit
SapFlagsV1 == 32
SapDeletionBit == 4
SapAddressTypeBit == 16
SapMinPacket == 8
SapMinDatagram == 4
\* "application/sdp\0"
Txt_mime == <<97, 112, 112, 108, 105, 99, 97, 116, 105, 111, 110, 47, 115, 100, 112, 0>>

RECURSIVE WrappingSum(_)
\* session_id.bytes().fold(0u16, |acc, b| acc.wrapping_add(b as u16)); wrapping
\* addition is associative, so the sum is taken half by half
WrappingSum(t) ==
    IF t = <<>> THEN 0
    ELSE IF Len(t) = 1 THEN t[1]
    ELSE (WrappingSum(SubSeq(t, 1, Len(t) \div 2))
          + WrappingSum(SubSeq(t, Len(t) \div 2 + 1, Len(t)))) % 65536

build_sap_packet(session_id, sdp_text, deletion) ==
    <<IF deletion THEN SapFlagsV1 + SapDeletionBit ELSE SapFlagsV1, 0>>
    \o u16_to_be_bytes(WrappingSum(session_id))
    \o <<0, 0, 0, 0>>
    \o Txt_mime
    \o sdp_text

\* parse_sap_packet; data[1] is byte 0.  String::from_utf8_lossy replaces bytes
\* that are not UTF-8 by U+FFFD, which no test of parse_sdp looks at, so the
\* payload is handed on byte for byte.
parse_sap_packet(data, source) ==
    IF Len(data) < SapMinPacket THEN None
    ELSE IF BitAnd(Shr(data[1], 5), 7) # 1 THEN None
    ELSE LET auth_len == data[2] * 4
             addr_type == IF BitAnd(data[1], SapAddressTypeBit) # 0 THEN 6 ELSE 4
             header_len == 4 + addr_type + auth_len
         IN  IF Len(data) < header_len THEN None
             ELSE LET payload == From(data, header_len)
                      zeros == {i \in 1..Len(payload) : payload[i] = 0}
                      sdp_start == IF zeros # {}
                                   THEN CHOOSE i \in zeros : \A j \in zeros : i <= j
                                   ELSE 0
                  IN  IF sdp_start >= Len(payload) THEN None
                      ELSE parse_sdp(From(payload, sdp_start), source)

\* HashMap<String, Aes67Stream> as the set of its entries
HashMap_insert(m, k, v) == {e \in m : e.key # k} \cup {[key |-> k, value |-> v]}
HashMap_remove(m, k) == {e \in m : e.key # k}

\* the body of the listener's loop for one datagram
listener_receive(streams, data, src) ==
    IF Len(data) < SapMinDatagram THEN streams
    ELSE LET stream == parse_sap_packet(data, src)
         IN  IF stream = None THEN streams
             ELSE IF BitAnd(data[1], SapDeletionBit) # 0
                  THEN HashMap_remove(streams, Unwrap(stream).session_id)
                  ELSE HashMap_insert(streams, Unwrap(stream).session_id, Unwrap(stream))

SapDiscovery_new == [streams |-> {}, announced |-> <<>>]

(***************************************************************************)
(* Audio engine commands (audio/engine.rs) and the AES67 backend's         *)
(* receiver (network_audio/backend.rs, rtp.rs)                             *)
(***************************************************************************)
Ok(v) == [ok |-> TRUE, value |-> v]
Err(e) == [ok |-> FALSE, error |-> e]

\* Aes67Backend as far as connect and disconnect go; rtp_receiver is the index
\* of the RtpReceiver it owns
Aes67Backend_new == [rtp_receiver |-> None, connected_device |-> None, connected |-> FALSE]

\* Aes67Backend::connect with the receiver created as number r
Aes67Backend_connect(b, device, r) ==
    [rtp_receiver |-> Some(r), connected_device |-> Some(device), connected |-> TRUE]

\* Aes67Backend::disconnect
Aes67Backend_disconnect(b) ==
    [rtp_receiver |-> None, connected_device |-> None, connected |-> FALSE]

\* AudioEngine::new, with the fields the commands use; cmds is the vector
\* process_commands collects, pc the position of the audio thread
AudioEngine_new ==
    [pc |-> "init", aes67_backend |-> None, audio_source |-> "Local", cmds |-> <<>>]

\* RtpReceiver::new and start: the running flag and the spawned worker
RtpReceiver_started == [running |-> TRUE, worker |-> TRUE]

\* RtpReceiver::stop on receiver number r
RtpReceiver_stop(rs, r) == [rs EXCEPT ![r].running = FALSE]

\* Mutant: the collected commands are handled newest first.
for_cmd_in_commands_reversed(cmds) ==
    [cmd |-> cmds[Len(cmds)], rest |-> SubSeq(cmds, 1, Len(cmds) - 1)]

\* for cmd in commands: the command handled next and the ones after it
for_cmd_in_commands(cmds) == [cmd |-> Head(cmds), rest |-> Tail(cmds)]

\* mpsc::Receiver::try_recv on a channel that is not empty
try_recv(q) == [cmd |-> Head(q), rest |-> Tail(q)]

\* handle_subscribe_stream: the result, the engine and the receivers after it;
\* created says whether RtpReceiver::new and start succeed
handle_subscribe_stream(e, rs, streams, stream_id, start_channel, created) ==
    IF e.aes67_backend = None
    THEN [result |-> Err("AES67 not initialized"), engine |-> e, receivers |-> rs]
    ELSE IF ~\E x \in streams : x.value.session_id = stream_id
    THEN [result |-> Err("Stream not found"), engine |-> e, receivers |-> rs]
    ELSE IF ~created
    THEN [result |-> Err("Connection failed"), engine |-> e, receivers |-> rs]
    ELSE [result |-> Ok([stream_id |-> stream_id, start_channel |-> start_channel]),
          engine |-> [e EXCEPT !.aes67_backend =
                          Some(Aes67Backend_connect(Unwrap(@), stream_id, Len(rs) + 1)),
                      !.audio_source = "Aes67"],
          receivers |-> Append(rs, RtpReceiver_started)]

\* handle_unsubscribe_stream: the stream id is not looked at
handle_unsubscribe_stream(e, rs, stream_id) ==
    IF e.aes67_backend = None
    THEN [result |-> Ok([unit |-> TRUE]), engine |-> e, receivers |-> rs]
    ELSE [result |-> Ok([unit |-> TRUE]),
          engine |-> [e EXCEPT !.aes67_backend = Some(Aes67Backend_disconnect(Unwrap(@))),
                      !.audio_source = "Local"],
          receivers |-> IF IsSome(Unwrap(e.aes67_backend).rtp_receiver)
                        THEN RtpReceiver_stop(rs, Unwrap(Unwrap(e.aes67_backend).rtp_receiver))
                        ELSE rs]

\* handle_client_message, SubscribeAes67Stream and UnsubscribeAes67Stream: the
\* reply and whether it is broadcast
Arm_SubscribeAes67Stream(result) ==
    IF result.ok THEN [type |-> "aes67_subscribed", id |-> result.value.stream_id, bcast |-> TRUE]
    ELSE [type |-> "error", id |-> "SUBSCRIBE_FAILED", bcast |-> FALSE]

Arm_UnsubscribeAes67Stream(stream_id, result) ==
    IF result.ok THEN [type |-> "aes67_unsubscribed", id |-> stream_id, bcast |-> TRUE]
    ELSE [type |-> "error", id |-> "UNSUBSCRIBE_FAILED", bcast |-> FALSE]

Requester_new == [pc |-> "idle", n |-> 0, kind |-> "none", stream_id |-> "",
                  results |-> 0, result |-> None, reply |-> None]

VARIABLES
    mixer,        \* the Mixer shared by all handlers (Arc<Mixer>)
    last,         \* SpecMixer: the latest direct call, its arguments and result
    nops,         \* SpecMixer: number of direct calls made
    client_count, \* AppState::client_count
    hub,          \* every message enqueued on broadcast_tx, in enqueue order
    pc,           \* per session: position in handle_websocket
    local,        \* per session: client_num, the frame in hand (cur), remaining,
                  \* and history: closed (a Close frame or socket error ended the
                  \* loop), peers (the receivers subscribed when the session
                  \* ended), note (position on the hub of its client_count_changed);
                  \* meter: the meter task runs
    rx_alive,     \* per session: broadcast_rx exists (subscribed, task not ended)
    rx_next,      \* per session: index in hub of the next message broadcast_rx yields
    lagged,       \* per session: broadcast_rx has reported RecvError::Lagged
    sent,         \* per session: the messages written to the socket, in order
    cmdlog,       \* history: the text frames handled so far, with their outcome
    nframes,      \* number of frames received so far, over all sessions
    nmeters,      \* number of meter ticks so far, over all sessions
    jb,           \* JitterBuffer: buffer, read_pos, write_pos
    jlog,         \* history: every sample pushed into the jitter buffer, in order
    jlast,        \* history: the latest jitter buffer call, its arguments and result
    njops,        \* number of jitter buffer calls made
    ring,         \* engine ring: buffer, write_pos, read_pos
    rlog,         \* history: the values the output callback popped, in order
    rlast,        \* history: the latest ring call, its argument and result
    nrops,        \* number of ring calls made
    chan_lock,    \* Mixer::channels, the RwLock: "free", "ctl_w", "cb_r" or "cb_w"
    ctl,          \* the control thread: position in a setter and its arguments
    cb,           \* the output callback: position, frame, ch, channel_states, data
    meters,       \* per channel: meter_peak and meter_peak_hold (per mille)
    ncb,          \* number of output callbacks started
    ptp,          \* PtpClock: state, running, offset_ns, stats, last_sync
    workers,      \* per spawned thread: position in run_ptp_loop, t1, t2, sync_sequence
    now,          \* the time, in seconds
    plast,        \* history: the latest step on the clock, with the clock before it
    nptp,         \* number of start and stop calls made
    rtp,          \* the latest RtpHeader call: its input, the bytes and the result
    sap,          \* SapDiscovery: streams (the listener's map) and announced
    wire,         \* the SAP packets sent to the multicast group and not yet received
    saplog,       \* history: per session, the packets the listener has processed
    nsap,         \* number of SAP packets sent
    sdp,          \* the latest generate_sdp / parse_sdp call: input, text and result
    engine,       \* AudioEngine and its thread: pc, aes67_backend, audio_source, cmds
    audio_running,\* main's audio_running flag
    cmd_queue,    \* the command channel; cmd_open: its receiver exists
    cmd_open,
    receivers,    \* every RtpReceiver created: its running flag, its worker alive
    rq,           \* per session: the command it sent, the result and the reply
    elog,         \* history: the commands accepted (enq) and handled (hnd), in
                  \* order, and the latest handled command with the engine before it
    nreq          \* number of commands sent

mixerVars == <<mixer, last, nops>>
sessVars == <<client_count, hub, pc, local, rx_alive, rx_next, lagged, sent, cmdlog,
             nframes, nmeters>>
jitterVars == <<jb, jlog, jlast, njops>>
ringVars == <<ring, rlog, rlast, nrops>>
callbackVars == <<chan_lock, ctl, cb, meters, ncb>>
ptpVars == <<ptp, workers, now, plast, nptp>>
rtpVars == <<rtp>>
sapVars == <<sap, wire, saplog, nsap>>
sdpVars == <<sdp>>
engineVars == <<engine, audio_running, cmd_queue, cmd_open, receivers, rq, elog, nreq>>
wireVars == <<rtpVars, sapVars, sdpVars, engineVars>>
netVars == <<callbackVars, ptpVars, wireVars>>
serverVars == <<mixerVars, sessVars, jitterVars, ringVars, callbackVars, ptpVars, engineVars>>
audioVars == <<jitterVars, ringVars, netVars>>
vars == <<mixer, last, nops, client_count, hub, pc, local, rx_alive, rx_next, lagged,
          sent, cmdlog, nframes, nmeters, jb, jlog, jlast, njops, ring, rlog, rlast, nrops,
          chan_lock, ctl, cb, meters, ncb, ptp, workers, now, plast, nptp,
          rtp, sap, wire, saplog, nsap, sdp,
          engine, audio_running, cmd_queue, cmd_open, receivers, rq, elog, nreq>>

Init ==
    /\ mixer = Mixer_new
    /\ last = [op |-> "new"]
    /\ nops = 0
    /\ client_count = 0
    /\ hub = <<>>
    /\ pc = [c \in Sessions |-> "new"]
    /\ local = [c \in Sessions |-> [client_num |-> 0, cur |-> 0, remaining |-> 0,
                                   closed |-> FALSE, peers |-> {}, note |-> 0,
                                   meter |-> FALSE]]
    /\ rx_alive = [c \in Sessions |-> FALSE]
    /\ rx_next = [c \in Sessions |-> 1]
    /\ lagged = [c \in Sessions |-> FALSE]
    /\ sent = [c \in Sessions |-> <<>>]
    /\ cmdlog = <<>>
    /\ nframes = 0
    /\ nmeters = 0
    /\ jb = JitterBuffer_new
    /\ jlog = <<>>
    /\ jlast = [op |-> "new"]
    /\ njops = 0
    /\ ring = create_ring_buffer
    /\ rlog = <<>>
    /\ rlast = [op |-> "new"]
    /\ nrops = 0
    /\ chan_lock = "free"
    /\ ctl = [pc |-> "idle", id |-> 0, value |-> 0, calls |-> 0]
    /\ cb = [pc |-> "idle", frame |-> 0, ch |-> 0, channel_states |-> <<>>, data |-> <<>>]
    /\ meters = [i \in 0..(input_count - 1) |-> [meter_peak |-> 0, meter_peak_hold |-> 0]]
    /\ ncb = 0
    /\ ptp = PtpClock_new
    /\ workers = [w \in 1..MaxWorkers |-> Worker_new]
    /\ now = 0
    /\ plast = [op |-> "new"]
    /\ nptp = 0
    /\ rtp = [op |-> "new"]
    /\ sap = SapDiscovery_new
    /\ wire = <<>>
    /\ saplog = {}
    /\ nsap = 0
    /\ sdp = [op |-> "new"]
    /\ engine = AudioEngine_new
    /\ audio_running = TRUE
    /\ cmd_queue = <<>>
    /\ cmd_open = TRUE
    /\ receivers = <<>>
    /\ rq = [r \in 1..NumRequesters |-> Requester_new]
    /\ elog = [enq |-> <<>>, hnd |-> <<>>, last |-> [kind |-> "new"]]
    /\ nreq = 0

(***************************************************************************)
(* SpecMixer: the mixer driven by direct calls (unit tests, REST facade,   *)
(* MIDI controller).                                                       *)
(***************************************************************************)
MxSetFader ==
    \E id \in ChannelIds, v \in FaderInputs :
        LET r == Mixer_set_fader(mixer, id, v)
        IN  /\ nops < MaxOps
            /\ mixer' = r[2]
            /\ last' = [op |-> "set_fader", id |-> id, arg |-> v, ret |-> r[1], pre |-> mixer]
            /\ nops' = nops + 1
            /\ UNCHANGED <<sessVars, audioVars>>

MxSetMute ==
    \E id \in ChannelIds, m \in BOOLEAN :
        LET r == Mixer_set_mute(mixer, id, m)
        IN  /\ nops < MaxOps
            /\ mixer' = r[2]
            /\ last' = [op |-> "set_mute", id |-> id, arg |-> m, ret |-> r[1], pre |-> mixer]
            /\ nops' = nops + 1
            /\ UNCHANGED <<sessVars, audioVars>>

MxSetSolo ==
    \E id \in ChannelIds, s \in BOOLEAN :
        LET r == Mixer_set_solo(mixer, id, s)
        IN  /\ nops < MaxOps
            /\ mixer' = r[2]
            /\ last' = [op |-> "set_solo", id |-> id, arg |-> s, ret |-> r[1], pre |-> mixer]
            /\ nops' = nops + 1
            /\ UNCHANGED <<sessVars, audioVars>>

MxSetPan ==
    \E id \in ChannelIds, p \in PanInputs :
        LET r == Mixer_set_pan(mixer, id, p)
        IN  /\ nops < MaxOps
            /\ mixer' = r[2]
            /\ last' = [op |-> "set_pan", id |-> id, arg |-> p, ret |-> r[1], pre |-> mixer]
            /\ nops' = nops + 1
            /\ UNCHANGED <<sessVars, audioVars>>

MxSetChannelName ==
    \E id \in ChannelIds, n \in NameInputs :
        LET r == Mixer_set_channel_name(mixer, id, n)
        IN  /\ nops < MaxOps
            /\ mixer' = r[2]
            /\ last' = [op |-> "set_channel_name", id |-> id, arg |-> n, ret |-> r[1], pre |-> mixer]
            /\ nops' = nops + 1
            /\ UNCHANGED <<sessVars, audioVars>>

MxSetRouting ==
    \E i \in RoutingInputs, o \in RoutingOutputs, g \in RoutingGainInputs :
        LET r == Mixer_set_routing(mixer, i, o, g)
        IN  /\ nops < MaxOps
            /\ mixer' = r[2]
            /\ last' = [op |-> "set_routing", id |-> <<i, o>>, arg |-> g, ret |-> r[1], pre |-> mixer]
            /\ nops' = nops + 1
            /\ UNCHANGED <<sessVars, audioVars>>

MxClear ==
    /\ nops < MaxOps
    /\ mixer' = [mixer EXCEPT !.routing = RoutingMatrix_clear(mixer.routing)]
    /\ last' = [op |-> "clear", pre |-> mixer]
    /\ nops' = nops + 1
    /\ UNCHANGED <<sessVars, audioVars>>

MxSetUnity ==
    /\ nops < MaxOps
    /\ mixer' = [mixer EXCEPT !.routing = RoutingMatrix_set_unity(mixer.routing)]
    /\ last' = [op |-> "set_unity", pre |-> mixer]
    /\ nops' = nops + 1
    /\ UNCHANGED <<sessVars, audioVars>>

MxSetStereoPair ==
    \E i \in {0, input_count - 1}, o \in {0, output_count - 1} :
        /\ nops < MaxOps
        /\ mixer' = [mixer EXCEPT !.routing = RoutingMatrix_set_stereo_pair(mixer.routing, i, o)]
        /\ last' = [op |-> "set_stereo_pair", id |-> <<i, o>>, pre |-> mixer]
        /\ nops' = nops + 1
    /\ UNCHANGED <<sessVars, audioVars>>

MxRecallScene ==
    \E sc \in Scenes :
        /\ nops < MaxOps
        /\ mixer' = recall_scene(mixer, sc)
        /\ last' = [op |-> "recall_scene", arg |-> sc, pre |-> mixer]
        /\ nops' = nops + 1
    /\ UNCHANGED <<sessVars, audioVars>>

NextMixer ==
    \/ MxSetFader
    \/ MxSetMute
    \/ MxSetSolo
    \/ MxSetPan
    \/ MxSetChannelName
    \/ MxSetRouting
    \/ MxClear
    \/ MxSetUnity
    \/ MxSetStereoPair
    \/ MxRecallScene

SpecMixer == Init /\ [][NextMixer]_vars

(***************************************************************************)
(* Properties of the mixer under direct calls (SpecMixer)                  *)
(***************************************************************************)
\* The ranges as the specification declares them.
InRange(v, lo, hi) == lo <= v /\ v <= hi
Max(a, b) == IF a > b THEN a ELSE b
Nearest(v, lo, hi) == Max(lo, Min(v, hi))

LastOnChannel(op) == last.op = op /\ last.id \in DOMAIN mixer.channels

\* C3: after set_fader(id, v) on an existing channel get_channel(id).fader is
\* clamp(v, 0, 1.25), after set_pan(id, p) get_channel(id).pan is clamp(p, -1, 1),
\* and fader and pan of every channel are within their ranges in every state.
C3_SettersStoreClamped ==
    /\ LastOnChannel("set_fader") =>
         /\ Unwrap(Mixer_get_channel(mixer, last.id)).fader = Nearest(last.arg, 0, 125)
         /\ last.ret = Mixer_get_channel(mixer, last.id)
    /\ LastOnChannel("set_pan") =>
         /\ Unwrap(Mixer_get_channel(mixer, last.id)).pan = Nearest(last.arg, -100, 100)
         /\ last.ret = Mixer_get_channel(mixer, last.id)
    /\ \A i \in DOMAIN mixer.channels :
         /\ InRange(mixer.channels[i].fader, 0, 125)
         /\ InRange(mixer.channels[i].pan, -100, 100)

\* A fader above the range and a pan below it have been stored at their limits.
C3_Witness ==
    /\ LastOnChannel("set_pan") /\ last.arg < -100 /\ mixer.channels[last.id].pan = -100
    /\ \E i \in DOMAIN mixer.channels : mixer.channels[i].fader = 125

\* C6: after any sequence of routing operations (set, clear, set_unity,
\* set_stereo_pair, scene recall) every cell of the input_count x output_count
\* matrix holds a gain within [0.0, 1.0] and the matrix keeps its dimensions.
C6_RoutingCellsInRange ==
    /\ DOMAIN mixer.routing = 0..(input_count - 1)
    /\ \A i \in DOMAIN mixer.routing :
         /\ DOMAIN mixer.routing[i] = 0..(output_count - 1)
         /\ \A o \in DOMAIN mixer.routing[i] : InRange(mixer.routing[i][o], 0, 100)

\* A scene with cells above and below the range, larger than the matrix, was
\* recalled after the matrix had been cleared.
C6_Witness ==
    /\ last.op = "recall_scene"
    /\ Len(last.arg.routing) > input_count
    /\ last.arg.routing[1][1] > 100
    /\ last.arg.routing[1][2] < 0
    /\ last.pre.routing = RoutingMatrix_clear(last.pre.routing)
    /\ mixer.routing[0][0] = 100

Entry(msg, k, via) == [msg |-> msg, k |-> k, via |-> via]

\* broadcast::Sender::send: the message is stored only while a receiver exists.
HubSendTo(h, rxs, e) == IF \E c \in Sessions : rxs[c] THEN Append(h, e) ELSE h

\* fetch_add(1) + 1, then broadcast_tx.subscribe().  Sessions are numbered in
\* the order in which they connect.
Connect(c) ==
    /\ pc[c] = "new"
    /\ \A d \in 1..(c - 1) : pc[d] # "new"
    /\ client_count' = client_count + 1
    /\ local' = [local EXCEPT ![c].client_num = client_count + 1]
    /\ rx_alive' = [rx_alive EXCEPT ![c] = TRUE]
    /\ rx_next' = [rx_next EXCEPT ![c] = Len(hub) + 1]
    /\ pc' = [pc EXCEPT ![c] = "welcome"]
    /\ UNCHANGED <<audioVars, mixerVars, nmeters, hub, lagged, sent, cmdlog, nframes>>

\* The Welcome with the state snapshot is written; the three tasks start.
Welcome(c) ==
    /\ pc[c] = "welcome"
    /\ sent' = [sent EXCEPT ![c] =
                 Append(@, Entry(WelcomeMsg(local[c].client_num, Mixer_get_state(mixer)),
                                 0, "welcome"))]
    /\ local' = [local EXCEPT ![c].meter = TRUE]
    /\ pc' = [pc EXCEPT ![c] = "idle"]
    /\ UNCHANGED <<audioVars, mixerVars, nmeters, client_count, hub, rx_alive, rx_next, lagged, cmdlog, nframes>>

\* Writing the Welcome fails: fetch_sub(1) and return.
WelcomeFail(c) ==
    /\ pc[c] = "welcome"
    /\ client_count' = client_count - 1
    /\ rx_alive' = [rx_alive EXCEPT ![c] = FALSE]
    /\ local' = [local EXCEPT ![c].peers = {d \in Sessions \ {c} : rx_alive[d]}]
    /\ pc' = [pc EXCEPT ![c] = "done"]
    /\ UNCHANGED <<audioVars, mixerVars, nmeters, hub, rx_next, lagged, sent, cmdlog, nframes>>

\* receiver.next() yields a text frame that decodes to a message of msgs:
\* handle_client_message
HandleOf(c, msgs) ==
    /\ pc[c] = "idle"
    /\ nframes < MaxFrames
    /\ nframes' = nframes + 1
    /\ \E msg \in msgs :
        LET r == handle_client_message(msg, mixer, client_count)
            k == Len(cmdlog) + 1
        IN  /\ mixer' = r.mixer
            /\ cmdlog' = Append(cmdlog,
                   [by |-> c, cmd |-> msg, resp |-> r.resp, bcast |-> r.bcast,
                    subs |-> {d \in Sessions : rx_alive[d]}, pre |-> mixer, post |-> r.mixer,
                    lost |-> FALSE])
            /\ local' = [local EXCEPT ![c].cur = k]
            /\ pc' = [pc EXCEPT ![c] = IF IsSome(r.resp) THEN "reply" ELSE "idle"]
    /\ UNCHANGED <<audioVars, nmeters, last, nops, client_count, hub, rx_alive, rx_next, lagged, sent>>

Handle(c) == HandleOf(c, ClientMessage)

\* The reply is written to the originator's socket.
Reply(c) ==
    /\ pc[c] = "reply"
    /\ sent' = [sent EXCEPT ![c] =
                 Append(@, Entry(Unwrap(cmdlog[local[c].cur].resp), local[c].cur, "reply"))]
    /\ pc' = [pc EXCEPT ![c] = IF cmdlog[local[c].cur].bcast THEN "hub" ELSE "idle"]
    /\ UNCHANGED <<audioVars, mixerVars, nmeters, client_count, hub, local, rx_alive, rx_next, lagged, cmdlog, nframes>>

\* Writing the reply fails: break out of the receive loop.
ReplyFail(c) ==
    /\ pc[c] = "reply"
    /\ cmdlog' = [cmdlog EXCEPT ![local[c].cur].lost = TRUE]
    /\ pc' = [pc EXCEPT ![c] = "cleanup"]
    /\ UNCHANGED <<audioVars, mixerVars, nmeters, client_count, hub, local, rx_alive, rx_next, lagged, sent, nframes>>

\* receiver.next() yields a text frame that does not decode: the PARSE_ERROR
\* reply is built.
ParseError(c) ==
    /\ pc[c] = "idle"
    /\ nframes < MaxFrames
    /\ nframes' = nframes + 1
    /\ \E text \in MalformedTexts :
        cmdlog' = Append(cmdlog,
               [by |-> c, cmd |-> [type |-> "malformed", text |-> text],
                resp |-> Some(ErrorMsg("PARSE_ERROR")), bcast |-> FALSE,
                subs |-> {d \in Sessions : rx_alive[d]}, pre |-> mixer, post |-> mixer,
                lost |-> FALSE])
    /\ local' = [local EXCEPT ![c].cur = Len(cmdlog) + 1]
    /\ pc' = [pc EXCEPT ![c] = "perr"]
    /\ UNCHANGED <<audioVars, mixerVars, nmeters, client_count, hub, rx_alive, rx_next, lagged, sent>>

\* The PARSE_ERROR is written to the originator's socket.
ParseErrorReply(c) ==
    /\ pc[c] = "perr"
    /\ sent' = [sent EXCEPT ![c] =
                 Append(@, Entry(Unwrap(cmdlog[local[c].cur].resp), local[c].cur, "reply"))]
    /\ pc' = [pc EXCEPT ![c] = "idle"]
    /\ UNCHANGED <<audioVars, mixerVars, nmeters, client_count, hub, local, rx_alive, rx_next, lagged, cmdlog, nframes>>

\* Writing the PARSE_ERROR fails: the result is discarded ("let _ =") and the
\* loop goes on.
ParseErrorReplyFail(c) ==
    /\ pc[c] = "perr"
    /\ cmdlog' = [cmdlog EXCEPT ![local[c].cur].lost = TRUE]
    /\ pc' = [pc EXCEPT ![c] = "idle"]
    /\ UNCHANGED <<audioVars, mixerVars, nmeters, client_count, hub, local, rx_alive, rx_next, lagged, sent, nframes>>

\* should_broadcast: broadcast_tx.send(response)
HubSend(c) ==
    /\ pc[c] = "hub"
    /\ hub' = HubSendTo(hub, rx_alive,
                        Entry(Unwrap(cmdlog[local[c].cur].resp), local[c].cur, "hub"))
    /\ pc' = [pc EXCEPT ![c] = "idle"]
    /\ UNCHANGED <<audioVars, mixerVars, nmeters, client_count, local, rx_alive, rx_next, lagged, sent, cmdlog, nframes>>

\* A Close frame, a socket error or the end of the stream.
Close(c) ==
    /\ pc[c] = "idle"
    /\ nframes < MaxFrames
    /\ nframes' = nframes + 1
    /\ local' = [local EXCEPT ![c].closed = TRUE]
    /\ pc' = [pc EXCEPT ![c] = "cleanup"]
    /\ UNCHANGED <<audioVars, mixerVars, nmeters, client_count, hub, rx_alive, rx_next, lagged, sent, cmdlog>>

\* meter_task.abort(); broadcast_task.abort(); remaining = fetch_sub(1) - 1
CleanupCount(c) ==
    /\ pc[c] = "cleanup"
    /\ rx_alive' = [rx_alive EXCEPT ![c] = FALSE]
    /\ client_count' = client_count - 1
    /\ local' = [local EXCEPT ![c].remaining = client_count - 1, ![c].meter = FALSE]
    /\ pc' = [pc EXCEPT ![c] = "notify"]
    /\ UNCHANGED <<audioVars, mixerVars, nmeters, hub, rx_next, lagged, sent, cmdlog, nframes>>

\* broadcast_tx.send(ClientCountChanged { count: remaining })
CleanupNotify(c) ==
    /\ pc[c] = "notify"
    /\ hub' = HubSendTo(hub, rx_alive, Entry(ClientCountChanged(local[c].remaining), 0, "hub"))
    /\ local' = [local EXCEPT ![c].peers = {d \in Sessions : rx_alive[d]},
                              ![c].note = IF hub' # hub THEN Len(hub') ELSE 0]
    /\ pc' = [pc EXCEPT ![c] = "done"]
    /\ UNCHANGED <<audioVars, mixerVars, nmeters, client_count, rx_alive, rx_next, lagged, sent, cmdlog, nframes>>

\* The broadcast task runs from the Welcome until the cleanup aborts it.
TaskRunning(c) == pc[c] \in {"idle", "reply", "perr", "hub", "cleanup"} /\ rx_alive[c]

\* Number of messages the receiver has not yet taken.
Backlog(c) == Len(hub) + 1 - rx_next[c]

\* broadcast_rx.recv() yields Ok(msg) and the message is written to the socket.
Forward(c) ==
    /\ TaskRunning(c)
    /\ Backlog(c) > 0
    /\ Backlog(c) <= HubCapacity
    /\ sent' = [sent EXCEPT ![c] = Append(@, hub[rx_next[c]])]
    /\ rx_next' = [rx_next EXCEPT ![c] = @ + 1]
    /\ UNCHANGED <<audioVars, mixerVars, nmeters, client_count, hub, pc, local, rx_alive, lagged, cmdlog, nframes>>

\* ... and the write fails: the task ends and drops its receiver.
ForwardFail(c) ==
    /\ TaskRunning(c)
    /\ Backlog(c) > 0
    /\ Backlog(c) <= HubCapacity
    /\ rx_alive' = [rx_alive EXCEPT ![c] = FALSE]
    /\ UNCHANGED <<audioVars, mixerVars, nmeters, client_count, hub, pc, local, rx_next, lagged, sent, cmdlog, nframes>>

\* Mutant: a lagging receiver is dropped.
Lagged_disconnects(c) ==
    /\ TaskRunning(c)
    /\ Backlog(c) > HubCapacity
    /\ rx_alive' = [rx_alive EXCEPT ![c] = FALSE]
    /\ lagged' = [lagged EXCEPT ![c] = TRUE]
    /\ UNCHANGED <<audioVars, mixerVars, nmeters, client_count, hub, pc, local, rx_next, sent, cmdlog, nframes>>

\* broadcast_rx.recv() yields Err(Lagged(n)): skip to the oldest retained message.
Lagged(c) ==
    /\ TaskRunning(c)
    /\ Backlog(c) > HubCapacity
    /\ rx_next' = [rx_next EXCEPT ![c] = Len(hub) + 1 - HubCapacity]
    /\ lagged' = [lagged EXCEPT ![c] = TRUE]
    /\ UNCHANGED <<audioVars, mixerVars, nmeters, client_count, hub, pc, local, rx_alive, sent, cmdlog, nframes>>

Next ==
    \E c \in Clients :
        \/ Connect(c)
        \/ Welcome(c)
        \/ WelcomeFail(c)
        \/ Handle(c)
        \/ Reply(c)
        \/ ReplyFail(c)
        \/ ParseError(c)
        \/ ParseErrorReply(c)
        \/ ParseErrorReplyFail(c)
        \/ HubSend(c)
        \/ Close(c)
        \/ CleanupCount(c)
        \/ CleanupNotify(c)
        \/ Forward(c)
        \/ ForwardFail(c)
        \/ Lagged(c)

Spec == Init /\ [][Next]_vars

(***************************************************************************)
(* SpecMeters: the sessions with their meter tasks, the clients sending    *)
(* set_mute only.  A Meters message carries a timestamp; the model's clock *)
(* is the number of commands applied so far.                               *)
(***************************************************************************)
MuteMessages == {m \in ClientMessage : m.type = "set_mute"}

MetersMsg(ts) == [type |-> "meters", timestamp |-> ts]

HandleMute(c) == HandleOf(c, MuteMessages)

\* interval.tick(): get_meters, build the message, write it to this client.
MeterTick(c) ==
    /\ local[c].meter
    /\ nmeters < MaxMeters
    /\ nmeters' = nmeters + 1
    /\ sent' = [sent EXCEPT ![c] = Append(@, Entry(MetersMsg(Len(cmdlog)), 0, "meter"))]
    /\ UNCHANGED <<audioVars, mixerVars, client_count, hub, pc, local, rx_alive, rx_next, lagged, cmdlog, nframes>>

\* ... and the write fails: the meter task ends.
MeterTickFail(c) ==
    /\ local[c].meter
    /\ nmeters < MaxMeters
    /\ nmeters' = nmeters + 1
    /\ local' = [local EXCEPT ![c].meter = FALSE]
    /\ UNCHANGED <<audioVars, mixerVars, client_count, hub, pc, rx_alive, rx_next, lagged, sent, cmdlog, nframes>>

NextMeters ==
    \E c \in Clients :
        \/ Connect(c)
        \/ Welcome(c)
        \/ WelcomeFail(c)
        \/ HandleMute(c)
        \/ Reply(c)
        \/ ReplyFail(c)
        \/ HubSend(c)
        \/ Close(c)
        \/ CleanupCount(c)
        \/ CleanupNotify(c)
        \/ Forward(c)
        \/ ForwardFail(c)
        \/ Lagged(c)
        \/ MeterTick(c)
        \/ MeterTickFail(c)

SpecMeters == Init /\ [][NextMeters]_vars

(***************************************************************************)
(* SpecJitter: the jitter buffer of one RtpReceiver.  The receiver thread  *)
(* pushes the samples of a packet, RtpReceiver::read pops; both hold the   *)
(* write lock of the RwLock for the whole call, so each call is one step.  *)
(* The samples pushed are numbered 1, 2, 3, ... so that each is distinct   *)
(* and none is the silence 0.                                              *)
(***************************************************************************)
\* The next n samples of the stream.
NextSamples(n) == [i \in 1..n |-> Len(jlog) + i]

\* jitter_buffer.write().push_samples(&samples)
JbPush ==
    \E n \in 1..MaxPush :
        /\ njops < MaxJitterOps
        /\ jb' = JitterBuffer_push_samples(jb, NextSamples(n))
        /\ jlog' = jlog \o NextSamples(n)
        /\ jlast' = [op |-> "push", arg |-> NextSamples(n), pre |-> jb,
                     pops |-> IF jlast.op = "new" THEN 0 ELSE jlast.pops]
        /\ njops' = njops + 1
        /\ UNCHANGED <<netVars, mixerVars, sessVars, ringVars>>

\* jitter_buffer.write().pop_samples(buffer), for a slice of len samples
JbPop ==
    \E len \in 0..(JitterCapacity + 1) :
        LET r == JitterBuffer_pop_samples(jb, len)
        IN  /\ njops < MaxJitterOps
            /\ jb' = r.jb
            /\ jlast' = [op |-> "pop", arg |-> len, ret |-> r.ret, out |-> r.out, pre |-> jb,
                         pops |-> IF jlast.op = "new" THEN 1 ELSE jlast.pops + 1]
            /\ njops' = njops + 1
            /\ UNCHANGED <<netVars, mixerVars, sessVars, ringVars, jlog>>

NextJitter == JbPush \/ JbPop

SpecJitter == Init /\ [][NextJitter]_vars

(***************************************************************************)
(* SpecRing: the engine ring between the input and the output callback of  *)
(* AudioEngine::start.  The two callbacks run on different threads; each   *)
(* call first tries the lock (try_write / try_read) and, having it, works  *)
(* on the positions and the Vec.  The samples pushed are numbered by the   *)
(* call that pushes them, so that each is distinct and none is 0.          *)
(***************************************************************************)
\* producer.try_push(sample): try_write succeeds
RingPushBegin ==
    /\ nrops < MaxRingOps
    /\ ring.lock = "free"
    /\ ring' = [ring EXCEPT !.lock = "w", !.pending = nrops + 1]
    /\ nrops' = nrops + 1
    /\ UNCHANGED <<netVars, mixerVars, sessVars, jitterVars, rlog, rlast>>

\* ... the consumer holds the read lock: Err(()), the sample is dropped.
RingPushContended ==
    /\ nrops < MaxRingOps
    /\ ring.lock = "r"
    /\ rlast' = [op |-> "push", value |-> nrops + 1, ret |-> "Err", pre |-> ring]
    /\ nrops' = nrops + 1
    /\ UNCHANGED <<netVars, mixerVars, sessVars, jitterVars, ring, rlog>>

\* fetch_add on write_pos, buf[pos] = value, the lock is released: Ok(())
RingPushCommit ==
    /\ ring.lock = "w"
    /\ ring' = [Producer_try_push(ring, ring.pending) EXCEPT !.lock = "free", !.pending = 0]
    /\ rlast' = [op |-> "push", value |-> ring.pending, ret |-> "Ok", pre |-> ring]
    /\ UNCHANGED <<netVars, mixerVars, sessVars, jitterVars, rlog, nrops>>

\* consumer.try_pop(): try_read succeeds
RingPopBegin ==
    /\ nrops < MaxRingOps
    /\ ring.lock = "free"
    /\ ring' = [ring EXCEPT !.lock = "r"]
    /\ nrops' = nrops + 1
    /\ UNCHANGED <<netVars, mixerVars, sessVars, jitterVars, rlog, rlast>>

\* ... the producer holds the write lock: None, the output sample is 0.0.
RingPopContended ==
    /\ nrops < MaxRingOps
    /\ ring.lock = "w"
    /\ rlog' = Append(rlog, 0)
    /\ rlast' = [op |-> "pop", value |-> 0, ret |-> "None", pre |-> ring]
    /\ nrops' = nrops + 1
    /\ UNCHANGED <<netVars, mixerVars, sessVars, jitterVars, ring>>

\* fetch_add on read_pos, Some(buf[pos]), the lock is released
RingPopCommit ==
    /\ ring.lock = "r"
    /\ LET r == Consumer_try_pop(ring)
       IN  /\ ring' = [r[2] EXCEPT !.lock = "free"]
           /\ rlog' = Append(rlog, r[1])
           /\ rlast' = [op |-> "pop", value |-> r[1], ret |-> "Some", pre |-> ring]
    /\ UNCHANGED <<netVars, mixerVars, sessVars, jitterVars, nrops>>

NextRing ==
    \/ RingPushBegin
    \/ RingPushContended
    \/ RingPushCommit
    \/ RingPopBegin
    \/ RingPopContended
    \/ RingPopCommit

SpecRing == Init /\ [][NextRing]_vars

(***************************************************************************)
(* Properties of the client protocol (Spec)                                *)
(***************************************************************************)
Frames == 1..Len(cmdlog)

\* The session that received frame k is still between handling it and the hub send.
InFlight(k) == pc[cmdlog[k].by] \in {"reply", "hub"} /\ local[cmdlog[k].by].cur = k

HubHas(k) == \E i \in 1..Len(hub) : hub[i].k = k
Received(c, k) == \E j \in 1..Len(sent[c]) : sent[c][j].k = k
ReceivedVia(c, k, via) == \E j \in 1..Len(sent[c]) : sent[c][j].k = k /\ sent[c][j].via = via

\* The frame names a channel the mixer does not have.
UnknownChannel(k) ==
    /\ cmdlog[k].cmd.type \in SetterTypes \cup {"set_gain"}
    /\ cmdlog[k].cmd.channel \notin DOMAIN cmdlog[k].pre.channels

\* The frame changed the mixer and its reply is flagged for broadcast.
Accepted(k) == IsSome(cmdlog[k].resp) /\ cmdlog[k].bcast

\* A connected session whose receiver has missed nothing.
InSync(c) == pc[c] = "idle" /\ rx_alive[c] /\ ~lagged[c]

\* Positions in sent[c] of the channel_updated messages for channel id.
UpdatesFor(c, id) ==
    {j \in 1..Len(sent[c]) :
        /\ sent[c][j].msg.type = "channel_updated"
        /\ sent[c][j].msg.channel.id = id}

MaxOf(S) == CHOOSE x \in S : \A y \in S : y <= x

\* Every accepted frame has been replied to and enqueued, and the broadcast
\* task of every connected session runs and has forwarded all hub messages.
AllProcessedAndDelivered ==
    /\ \A k \in Frames : ~InFlight(k) /\ (Accepted(k) => HubHas(k))
    /\ \A c \in Clients : pc[c] = "idle" => rx_alive[c] /\ Backlog(c) = 0

\* C1: once concurrently sent channel setters have been fully processed and all
\* hub messages delivered, the last channel_updated every non-lagging client
\* received for a channel carries the mixer's state of that channel.
C1_LastUpdateIsAuthoritative ==
    AllProcessedAndDelivered =>
        \A c \in Clients : InSync(c) =>
            \A id \in DOMAIN mixer.channels :
                UpdatesFor(c, id) # {} =>
                    sent[c][MaxOf(UpdatesFor(c, id))].msg.channel
                        = Unwrap(Mixer_get_channel(mixer, id))

\* C2: once the handler of an accepted fader/mute/solo/pan/name/routing frame
\* has finished, the resulting message is on the hub, delivered or still to
\* be delivered to every client that was subscribed when the frame was
\* handled (and is still connected and subscribed and has not lagged).
C2_AcceptedMutationReachesSubscribers ==
    \A k \in Frames :
        (/\ cmdlog[k].cmd.type \in SetterTypes \cup {"set_routing"}
         /\ Accepted(k)
         /\ ~InFlight(k)) =>
            \A c \in cmdlog[k].subs :
                (pc[c] \in {"idle", "reply", "perr", "hub"} /\ rx_alive[c] /\ ~lagged[c]) =>
                    \E i \in 1..Len(hub) :
                        /\ hub[i].k = k
                        /\ hub[i].msg = Unwrap(cmdlog[k].resp)
                        /\ (i >= rx_next[c] \/ ReceivedVia(c, k, "hub"))

\* C4: a channel setter naming a channel that does not exist yields "no such
\* channel", leaves the whole mixer state unchanged and produces no message,
\* neither for the originator nor on the hub.
C4_UnknownChannelChangesNothing ==
    \A k \in Frames :
        (cmdlog[k].cmd.type \in SetterTypes /\ UnknownChannel(k)) =>
            /\ cmdlog[k].resp = None
            /\ cmdlog[k].post = cmdlog[k].pre
            /\ ~InFlight(k)
            /\ ~HubHas(k)
            /\ \A c \in Clients : ~Received(c, k)

\* A set_fader for an unknown channel was followed, in the same session, by a
\* get_state whose reply shows the state as it was before.
C4_Witness ==
    /\ Len(cmdlog) = 2
    /\ cmdlog[1].cmd.type = "set_fader" /\ UnknownChannel(1)
    /\ cmdlog[2].cmd.type = "get_state" /\ cmdlog[2].by = cmdlog[1].by
    /\ \E j \in 1..Len(sent[cmdlog[2].by]) :
         /\ sent[cmdlog[2].by][j].k = 2
         /\ sent[cmdlog[2].by][j].msg.state = Mixer_get_state(cmdlog[1].pre)

\* C5: a command naming an unknown channel is answered to the originator with
\* an error message (and handling it does not end the session: the session is
\* left ready for the next frame or about to write the reply).
C5_UnknownChannelAnsweredWithError ==
    \A k \in Frames :
        UnknownChannel(k) =>
            /\ IsSome(cmdlog[k].resp)
            /\ Unwrap(cmdlog[k].resp).type = "error"
            /\ (nframes = k /\ Len(cmdlog) = k) => pc[cmdlog[k].by] \in {"idle", "reply"}

OutOfRangeRouting(k) ==
    /\ cmdlog[k].cmd.type = "set_routing"
    /\ (cmdlog[k].cmd.input >= input_count \/ cmdlog[k].cmd.output >= output_count)

\* C7: set_routing with input >= input_count or output >= output_count returns
\* false and leaves every cell unchanged; the originator alone receives the
\* error INVALID_ROUTING and nothing is enqueued on the hub.
C7_InvalidRoutingRejected ==
    \A k \in Frames :
        OutOfRangeRouting(k) =>
            /\ cmdlog[k].post = cmdlog[k].pre
            /\ cmdlog[k].resp = Some(ErrorMsg("INVALID_ROUTING"))
            /\ ~cmdlog[k].bcast
            /\ ~HubHas(k)
            /\ \A c \in Clients : Received(c, k) => c = cmdlog[k].by
            /\ (~InFlight(k) /\ pc[cmdlog[k].by] = "idle" /\ local[cmdlog[k].by].cur = k)
                 => ReceivedVia(cmdlog[k].by, k, "reply")

\* The originator has received INVALID_ROUTING while another session is connected.
C7_Witness ==
    \E k \in Frames :
        /\ OutOfRangeRouting(k)
        /\ cmdlog[k].cmd.input < input_count
        /\ ReceivedVia(cmdlog[k].by, k, "reply")
        /\ \E c \in Clients : c # cmdlog[k].by /\ InSync(c)

\* C9: after an accepted set_gain for an existing channel with value v the
\* channel's trim gain is clamp(v, -20, +20) and the channel_updated carries it.
C9_SetGainStoresClamped ==
    \A k \in Frames :
        (cmdlog[k].cmd.type = "set_gain" /\ ~UnknownChannel(k)) =>
            /\ cmdlog[k].post.channels[cmdlog[k].cmd.channel].gain
                 = Nearest(cmdlog[k].cmd.value, -20, 20)
            /\ Unwrap(cmdlog[k].resp).channel.gain = Nearest(cmdlog[k].cmd.value, -20, 20)

\* C10: queries, hello and ping never enqueue a message on the hub and never
\* change mixer state; only the originator receives a reply, none for hello.
C10_QueriesStayLocal ==
    \A k \in Frames :
        cmdlog[k].cmd.type \in QueryTypes =>
            /\ cmdlog[k].post = cmdlog[k].pre
            /\ ~HubHas(k)
            /\ ~(pc[cmdlog[k].by] = "hub" /\ local[cmdlog[k].by].cur = k)
            /\ \A c \in Clients : Received(c, k) => c = cmdlog[k].by
            /\ IsSome(cmdlog[k].resp) = (cmdlog[k].cmd.type # "hello")
            /\ (~InFlight(k) /\ pc[cmdlog[k].by] = "idle" /\ local[cmdlog[k].by].cur = k
                /\ cmdlog[k].cmd.type # "hello")
                 => ReceivedVia(cmdlog[k].by, k, "reply")

\* A get_state was answered to its sender while another session was connected,
\* after a channel had been changed.
C10_Witness ==
    \E k \in Frames :
        /\ cmdlog[k].cmd.type = "get_state"
        /\ cmdlog[k].pre # Mixer_new
        /\ ReceivedVia(cmdlog[k].by, k, "reply")
        /\ \E c \in Clients : c # cmdlog[k].by /\ InSync(c)

\* A frame that does not decode, or a command without an arm.
ErrorFrame(k) == cmdlog[k].cmd.type \in NyiTypes \cup {"malformed"}

ErrorCodeFor(k) == IF cmdlog[k].cmd.type = "malformed" THEN "PARSE_ERROR" ELSE "NOT_IMPLEMENTED"

Counted(c) == pc[c] \in {"welcome", "idle", "reply", "perr", "hub", "cleanup"}

\* C12: whenever a session ends, for any reason (remote close, socket error, a
\* send failure, failure to send the Welcome), the client counter has been
\* decremented exactly once for it and, some receiver being subscribed, a
\* client_count_changed carrying the count after that decrement is on the hub.
C12_SessionEndDecrementsAndNotifies ==
    /\ client_count = Cardinality({c \in Clients : Counted(c)})
    /\ \A c \in Clients :
         (pc[c] = "done" /\ local[c].peers # {}) =>
            /\ local[c].note \in 1..Len(hub)
            /\ hub[local[c].note].msg.type = "client_count_changed"
            /\ hub[local[c].note].msg.count = local[c].remaining

\* C13: with all clients connected, after a client sends set_mute{channel,
\* muted: true} for an existing channel, every client is sent the
\* channel_updated with mute = true before it is sent any meters message
\* produced after the command was applied.
C13_UpdateBeforeLaterMeters ==
    \A k \in Frames :
        (/\ cmdlog[k].cmd.type = "set_mute" /\ cmdlog[k].cmd.muted
         /\ ~UnknownChannel(k)
         /\ cmdlog[k].subs = Clients) =>
            \A c \in Clients : \A j \in 1..Len(sent[c]) :
                (sent[c][j].msg.type = "meters" /\ sent[c][j].msg.timestamp >= k) =>
                    \E i \in 1..(j - 1) :
                        /\ sent[c][i].k = k
                        /\ sent[c][i].msg.type = "channel_updated"
                        /\ sent[c][i].msg.channel.mute

\* The messages the broadcast task of c has written, in the order written.
Forwarded(c) == SelectSeq(sent[c], LAMBDA e : e.via = "hub")

\* a can be obtained from b by deleting elements.
RECURSIVE IsSubseq(_, _)
IsSubseq(a, b) ==
    IF a = <<>> THEN TRUE
    ELSE IF b = <<>> THEN FALSE
    ELSE IF Head(a) = Head(b) THEN IsSubseq(Tail(a), Tail(b))
    ELSE IsSubseq(a, Tail(b))

\* The step in which the receiver of c skips messages it has fallen behind.
LagStep(c) ==
    /\ pc[c] # "new"
    /\ \/ lagged'[c] /\ ~lagged[c]
       \/ rx_next'[c] # rx_next[c] /\ sent'[c] = sent[c]

\* In every state: a receiver that never lagged has been forwarded a gap-free
\* run of the hub's messages in hub order, up to its cursor; a receiver that
\* lagged has been forwarded hub messages in hub order.
ForwardedInOrder ==
    \A c \in Clients :
        /\ IsSubseq(Forwarded(c), hub)
        /\ ~lagged[c] =>
             /\ rx_next[c] - Len(Forwarded(c)) >= 1
             /\ Forwarded(c) = SubSeq(hub, rx_next[c] - Len(Forwarded(c)), rx_next[c] - 1)

\* C14: a client that falls more than the hub capacity behind loses only its
\* own oldest messages: the step that skips them leaves it connected and
\* subscribed with its cursor on the oldest retained message, so that it goes
\* on receiving; it touches no other receiver, and every receiver that never
\* lagged gets all hub messages in order.
C14_LaggingLosesOnlyOwnOldest ==
    [][/\ ForwardedInOrder'
       /\ \A c \in Clients :
            LagStep(c) =>
                /\ rx_alive'[c] /\ pc'[c] = pc[c]
                /\ rx_next'[c] = Len(hub) + 1 - HubCapacity
                /\ Len(hub) + 1 - rx_next'[c] \in 1..HubCapacity
                /\ hub' = hub
                /\ \A d \in Clients \ {c} :
                     /\ rx_next'[d] = rx_next[d] /\ rx_alive'[d] = rx_alive[d]
                     /\ sent'[d] = sent[d] /\ pc'[d] = pc[d]]_vars

\* A receiver that lagged has since been forwarded the latest hub message,
\* while the other session has been forwarded both hub messages in order.
C14_Witness ==
    /\ Len(hub) = 2
    /\ \E c \in Clients :
         /\ lagged[c] /\ rx_alive[c] /\ pc[c] = "idle"
         /\ Forwarded(c) = <<hub[2]>>
         /\ \E d \in Clients \ {c} : ~lagged[d] /\ Forwarded(d) = hub

(***************************************************************************)
(* Properties of the jitter buffer (SpecJitter)                            *)
(***************************************************************************)
\* Number of samples between the read and the write position.
Held(b) == (b.write_pos - b.read_pos) % JitterCapacity

\* The samples between the read and the write position, oldest first.
Contents(b) == [i \in 1..Held(b) |-> b.buffer[(b.read_pos + i - 1) % JitterCapacity]]

\* The last n elements of s.
LastN(s, n) == SubSeq(s, Len(s) - n + 1, Len(s))

\* C15: starting from an empty buffer, for any N up to the buffer's capacity,
\* pushing N samples and then popping N returns exactly those N samples in
\* the order pushed.
C15_PushNPopN ==
    (/\ jlast.op = "pop" /\ jlast.pops = 1
     /\ jlast.arg = Len(jlog)
     /\ Len(jlog) <= JitterCapacity) =>
        /\ jlast.ret = Len(jlog)
        /\ jlast.out = jlog

\* C16: starting from an empty buffer of capacity C with no pops, after
\* pushing C + 1 samples the read position has advanced by exactly 1: exactly
\* the single oldest sample was dropped.
C16_OldestDrop ==
    (/\ jlast.op = "push" /\ jlast.pops = 0
     /\ Len(jlog) = JitterCapacity + 1) =>
        /\ jb.read_pos = 1
        /\ Contents(jb) = Tail(jlog)

\* C17: pop_samples(buf) copies min(len(buf), available()) samples from the read
\* position in FIFO order (the oldest samples still held, in the order pushed),
\* fills the rest of buf with 0.0, returns the number copied and reduces
\* available() by exactly that number; on an empty buffer it returns 0 and buf
\* is all zeros.
C17_PopCopiesThenZeroFills ==
    jlast.op = "pop" =>
        LET pre == jlast.pre
            n == Min(jlast.arg, Held(pre))
        IN  /\ jlast.ret = n
            /\ Len(jlast.out) = jlast.arg
            /\ Contents(pre) = LastN(jlog, Held(pre))
            /\ \A i \in 1..jlast.arg :
                 jlast.out[i] = IF i <= n THEN Contents(pre)[i] ELSE 0
            /\ JitterBuffer_available(jb) = JitterBuffer_available(pre) - n
            /\ Contents(jb) = SubSeq(Contents(pre), n + 1, Held(pre))
            /\ jb.write_pos = pre.write_pos
            /\ Held(pre) = 0 => (jlast.ret = 0 /\ \A i \in 1..jlast.arg : jlast.out[i] = 0)

\* A pop asked for more than the buffer held while the held samples wrapped
\* around the end of the ring: some were copied and the rest zero-filled.
C17_Witness ==
    /\ jlast.op = "pop"
    /\ jlast.pre.write_pos < jlast.pre.read_pos
    /\ jlast.ret >= 2
    /\ jlast.arg > jlast.ret
    /\ jlast.out[jlast.ret] = jlog[Len(jlog)]
    /\ jlast.out[jlast.arg] = 0

\* C18 as stated: the write position is changed only by push and the read
\* position only by pop; no push ever modifies the read position.
C18_NoPushMovesReadPos ==
    /\ jlast.op = "pop" => jb.write_pos = jlast.pre.write_pos
    /\ jlast.op = "push" => jb.read_pos = jlast.pre.read_pos

\* C18 (amended): the write position is changed only by push, never by pop.
\* The read position is changed by pop, and by a push only when that push
\* makes the write position catch up with the read position; the push then
\* advances the read position by one for every sample from that one on.
C18_ReadPosMovedByPopOrCollision ==
    /\ jlast.op = "pop" =>
         /\ jb.write_pos = jlast.pre.write_pos
         /\ jb.buffer = jlast.pre.buffer
    /\ jlast.op = "push" =>
         LET pre == jlast.pre
             over == Held(pre) + Len(jlast.arg) - (JitterCapacity - 1)
         IN  /\ jb.write_pos = (pre.write_pos + Len(jlast.arg)) % JitterCapacity
             /\ jb.read_pos = IF over > 0
                              THEN (pre.read_pos + over) % JitterCapacity
                              ELSE pre.read_pos

\* After a pop, a push has caught up with the read position and moved it.
C18_Witness ==
    /\ jlast.op = "push"
    /\ jlast.pops >= 1
    /\ jb.read_pos # jlast.pre.read_pos
    /\ Held(jlast.pre) + Len(jlast.arg) >= JitterCapacity

(***************************************************************************)
(* Properties of the engine ring (SpecRing)                                *)
(***************************************************************************)
\* Samples written and not yet read.
Unread(r) == r.write_pos - r.read_pos

\* C19: when the input callback pushes a sample while the ring already holds
\* capacity unread samples, that sample is dropped and none of the buffered,
\* not yet popped samples is overwritten.
C19_OverflowDropsNewSample ==
    (rlast.op = "push" /\ Unread(rlast.pre) >= RingCapacity) =>
        /\ rlast.ret = "Err"
        /\ ring.buffer = rlast.pre.buffer
        /\ ring.write_pos = rlast.pre.write_pos

\* C20: when the output callback pops while the ring holds no unread sample,
\* the popped value is 0.0; no sample is ever delivered twice and no slot is
\* read before being written (the reads never overtake the writes).
C20_UnderrunYieldsSilence ==
    /\ (rlast.op = "pop" /\ Unread(rlast.pre) <= 0) => rlast.value = 0
    /\ \A i, j \in 1..Len(rlog) : (i < j /\ rlog[i] # 0) => rlog[i] # rlog[j]
    /\ ring.read_pos <= ring.write_pos

(***************************************************************************)
(* SpecCallback: the output callback of the audio engine (engine.rs        *)
(* 351-366, process_channels 515-540) beside a control thread that calls a *)
(* mixer setter.  Mixer::channels is a std::sync::RwLock; read() and       *)
(* write() block until the lock can be taken, so an acquiring step is      *)
(* enabled only when the lock is free.  Sample values and gains are per    *)
(* mille (1000 = 1.0).                                                     *)
(***************************************************************************)
CallbackChannels == 2
CbSamples == {0, 500, -800}
CtlFaderInputs == {0, 50, 200}

Abs(x) == IF x < 0 THEN 0 - x ELSE x

\* 10^(db/20) for the faders a setter can store above 0.75: 1.0 and 1.25
DbToGain(db) == CASE db = 0 -> 1000 [] db = 10 -> 3162 [] db = 20 -> 10000

\* fader_to_gain: fader in percent, gain per mille
fader_to_gain(fader) ==
    IF fader < 1 THEN 0
    ELSE IF fader <= 75 THEN (fader * fader * 1000) \div (75 * 75)
    ELSE DbToGain(((fader - 75) * 10) \div 25)

\* Channel::update_meter: attack at once, release by 0.95; the hold keeps the maximum
Channel_update_meter(m, peak) ==
    [meter_peak |-> IF peak > m.meter_peak THEN peak ELSE (m.meter_peak * 95) \div 100,
     meter_peak_hold |-> IF peak > m.meter_peak_hold THEN peak ELSE m.meter_peak_hold]

\* Mixer::update_meter (lock held): an unknown id changes nothing
Mixer_update_meter(ms, id, peak) ==
    IF id \in DOMAIN ms THEN [ms EXCEPT ![id] = Channel_update_meter(ms[id], peak)] ELSE ms

\* control thread: Mixer::set_fader, self.channels.write() returns the guard
CtlSetFaderBegin ==
    \E id \in ChannelIds, v \in CtlFaderInputs :
        /\ ctl.pc = "idle"
        /\ ctl.calls < MaxSetterCalls
        /\ chan_lock = "free"
        /\ chan_lock' = "ctl_w"
        /\ ctl' = [pc |-> "set", id |-> id, value |-> v, calls |-> ctl.calls + 1]
        /\ UNCHANGED <<wireVars, ptpVars, mixerVars, sessVars, jitterVars, ringVars, cb, meters, ncb>>

\* ... the channel is changed and the guard is dropped
CtlSetFaderEnd ==
    /\ ctl.pc = "set"
    /\ mixer' = Mixer_set_fader(mixer, ctl.id, ctl.value)[2]
    /\ chan_lock' = "free"
    /\ ctl' = [ctl EXCEPT !.pc = "idle"]
    /\ UNCHANGED <<wireVars, ptpVars, last, nops, sessVars, jitterVars, ringVars, cb, meters, ncb>>

\* the callback is entered: every sample of data is consumer.try_pop().unwrap_or(0.0)
CbFill ==
    \E smp \in CbSamples :
        /\ cb.pc = "idle"
        /\ ncb < MaxCallbacks
        /\ cb' = [pc |-> "get_all", frame |-> 0, ch |-> 0, channel_states |-> <<>>,
                  data |-> [i \in 0..(BufferFrames * CallbackChannels - 1) |-> smp]]
        /\ ncb' = ncb + 1
        /\ UNCHANGED <<wireVars, ptpVars, mixerVars, sessVars, jitterVars, ringVars, chan_lock, ctl, meters>>

\* process_channels: mixer.get_all_channels(), self.channels.read() returns the guard
CbGetAllAcquire ==
    /\ cb.pc = "get_all"
    /\ chan_lock = "free"
    /\ chan_lock' = "cb_r"
    /\ cb' = [cb EXCEPT !.pc = "collect"]
    /\ UNCHANGED <<wireVars, ptpVars, mixerVars, sessVars, jitterVars, ringVars, ctl, meters, ncb>>

\* ... the states are collected and the guard is dropped
CbGetAllCollect ==
    /\ cb.pc = "collect"
    /\ chan_lock' = "free"
    /\ cb' = [cb EXCEPT !.channel_states = Mixer_get_all_channels(mixer),
                        !.pc = IF BufferFrames = 0 THEN "master" ELSE "gain"]
    /\ UNCHANGED <<wireVars, ptpVars, mixerVars, sessVars, jitterVars, ringVars, ctl, meters, ncb>>

CbIdx == cb.frame * CallbackChannels + cb.ch

\* output[idx] *= gain, with the snapshot taken at the start of the callback
CbGain ==
    /\ cb.pc = "gain"
    /\ LET state == cb.channel_states[cb.ch]
           gain == IF state.mute THEN 0 ELSE fader_to_gain(state.fader)
       IN  cb' = [cb EXCEPT !.data[CbIdx] = (cb.data[CbIdx] * gain) \div 1000,
                            !.pc = "meter"]
    /\ UNCHANGED <<wireVars, ptpVars, mixerVars, sessVars, jitterVars, ringVars, chan_lock, ctl, meters, ncb>>

\* mixer.update_meter(ch, ...): self.channels.write() returns the guard
CbMeterAcquire ==
    /\ cb.pc = "meter"
    /\ chan_lock = "free"
    /\ chan_lock' = "cb_w"
    /\ cb' = [cb EXCEPT !.pc = "in_meter"]
    /\ UNCHANGED <<wireVars, ptpVars, mixerVars, sessVars, jitterVars, ringVars, ctl, meters, ncb>>

\* ... the peak is stored, the guard is dropped, the loops go on
CbMeterStore ==
    /\ cb.pc = "in_meter"
    /\ meters' = Mixer_update_meter(meters, cb.ch, Abs(cb.data[CbIdx]))
    /\ chan_lock' = "free"
    /\ LET chs == Min(CallbackChannels, Cardinality(DOMAIN cb.channel_states))
       IN  cb' = IF cb.ch + 1 < chs
                 THEN [cb EXCEPT !.ch = cb.ch + 1, !.pc = "gain"]
                 ELSE IF cb.frame + 1 < BufferFrames
                 THEN [cb EXCEPT !.frame = cb.frame + 1, !.ch = 0, !.pc = "gain"]
                 ELSE [cb EXCEPT !.pc = "master"]
    /\ UNCHANGED <<wireVars, ptpVars, mixerVars, sessVars, jitterVars, ringVars, ctl, ncb>>

\* process_master works on the MasterSection only; the callback returns
CbReturn ==
    /\ cb.pc = "master"
    /\ cb' = [cb EXCEPT !.pc = "idle"]
    /\ UNCHANGED <<wireVars, ptpVars, mixerVars, sessVars, jitterVars, ringVars, chan_lock, ctl, meters, ncb>>

\* a step of the audio thread
CallbackStep ==
    \/ CbFill
    \/ CbGetAllAcquire
    \/ CbGetAllCollect
    \/ CbGain
    \/ CbMeterAcquire
    \/ CbMeterStore
    \/ CbReturn

NextCallback ==
    \/ CtlSetFaderBegin
    \/ CtlSetFaderEnd
    \/ CbFill
    \/ CbGetAllAcquire
    \/ CbGetAllCollect
    \/ CbGain
    \/ CbMeterAcquire
    \/ CbMeterStore
    \/ CbReturn

SpecCallback == Init /\ [][NextCallback]_vars

(***************************************************************************)
(* Properties of the output callback (SpecCallback)                        *)
(***************************************************************************)
\* The callback has work left: it is inside process_channels or may be entered.
CallbackRuns == cb.pc # "idle" \/ ncb < MaxCallbacks

\* C21: the output callback never waits for a lock: while a control thread
\* holds the mixer's channel lock inside a setter, a step of the audio
\* callback is still enabled.
C21_CallbackNeverWaits ==
    (chan_lock = "ctl_w" /\ CallbackRuns) => ENABLED CallbackStep


(***************************************************************************)
(* The PtpClock, the control thread that calls start() and stop(), and the *)
(* threads start() spawns.  A thread runs run_ptp_loop: it creates its     *)
(* sockets, then tests "running" at the top of every iteration, reads the  *)
(* event socket, reads the general socket and checks for the sync timeout. *)
(* process_sync and the timeout check run in a worker only and are one     *)
(* step each.  A message is given by the raw offset t1 - t2 it carries.    *)
(***************************************************************************)
Workers == 1..MaxWorkers
RawOffsets == {0, 1000000, -12}
SlaveRawOffsets == {0, 1000000}
SyncSequences == {0, 1}

Live(w) == workers[w].pc \notin {"none", "exited", "failed"}
LiveWorkers == {w \in Workers : Live(w)}
NowNs == Timestamp(now, 0)

\* history: the latest step that changed the clock, the raw offset it carried,
\* the clock's offset and state before it, the raw offsets of all syncs so far
PtpStep(op, raw) ==
    [op |-> op, raw |-> raw, offset_ns |-> ptp.offset_ns, state |-> ptp.state,
     raws |-> IF op = "sync" THEN (IF plast.op = "new" THEN {} ELSE plast.raws) \cup {raw}
              ELSE IF plast.op = "new" THEN {} ELSE plast.raws]

\* PtpClock::start
PtpStart ==
    /\ nptp < MaxPtpCalls
    /\ nptp' = nptp + 1
    /\ IF ptp.running
       THEN UNCHANGED <<ptp, workers, plast>>
       ELSE /\ plast' = PtpStep("start", 0)
            /\ \E w \in Workers :
                  /\ workers[w].pc = "none"
                  /\ \A v \in Workers : v < w => workers[v].pc # "none"
                  /\ workers' = [workers EXCEPT ![w].pc = "spawned"]
            /\ ptp' = [ptp EXCEPT !.running = TRUE, !.state = "Listening"]
    /\ UNCHANGED <<wireVars, callbackVars, mixerVars, sessVars, jitterVars, ringVars, now>>

\* PtpClock::stop
PtpStop ==
    /\ nptp < MaxPtpCalls
    /\ nptp' = nptp + 1
    /\ plast' = PtpStep("stop", 0)
    /\ ptp' = [ptp EXCEPT !.running = FALSE, !.state = "Initializing"]
    /\ UNCHANGED <<wireVars, callbackVars, mixerVars, sessVars, jitterVars, ringVars, workers, now>>

\* run_ptp_loop: both sockets are created and bound
WSockets(w) ==
    /\ workers[w].pc = "spawned"
    /\ workers' = [workers EXCEPT ![w].pc = "top"]
    /\ UNCHANGED <<wireVars, callbackVars, mixerVars, sessVars, jitterVars, ringVars, ptp, now, plast, nptp>>

\* ... create_ptp_socket fails: the error is returned to the closure, which logs it
WSocketsFail(w) ==
    /\ workers[w].pc = "spawned"
    /\ workers' = [workers EXCEPT ![w].pc = "failed"]
    /\ UNCHANGED <<wireVars, callbackVars, mixerVars, sessVars, jitterVars, ringVars, ptp, now, plast, nptp>>

\* while running.load(Relaxed)
WLoopTop(w) ==
    /\ workers[w].pc = "top"
    /\ workers' = [workers EXCEPT ![w].pc = IF ptp.running THEN "event" ELSE "exited"]
    /\ UNCHANGED <<wireVars, callbackVars, mixerVars, sessVars, jitterVars, ringVars, ptp, now, plast, nptp>>

\* event socket: a one-step Sync, its timestamp is in the message
WEventSyncOf(w, syncs, raws) ==
    \E raw \in raws, seq \in SyncSequences :
        LET t2 == Some(NowNs)
            t1 == Some(Timestamp(now, raw))
        IN  /\ workers[w].pc = "event"
            /\ ptp.stats.sync_count < syncs
            /\ workers' = [workers EXCEPT ![w].pc = "general", ![w].t2 = t2,
                                          ![w].sync_sequence = seq,
                                          ![w].applied = 1]
            /\ ptp' = process_sync(ptp, t1, t2, now)
            /\ plast' = PtpStep("sync", raw)
            /\ UNCHANGED <<wireVars, callbackVars, mixerVars, sessVars, jitterVars, ringVars, now, nptp>>

WEventSync(w) == WEventSyncOf(w, MaxLifecycleSyncs, RawOffsets)

\* event socket: a two-step Sync, the timestamp follows
WEventSyncTwoStepOf(w, syncs) ==
    \E seq \in SyncSequences :
        /\ workers[w].pc = "event"
        /\ ptp.stats.sync_count < syncs
        /\ workers' = [workers EXCEPT ![w].pc = "general", ![w].t2 = Some(NowNs),
                                      ![w].sync_sequence = seq,
                                      ![w].applied = 0]
        /\ UNCHANGED <<wireVars, callbackVars, mixerVars, sessVars, jitterVars, ringVars, ptp, now, plast, nptp>>

WEventSyncTwoStep(w) == WEventSyncTwoStepOf(w, MaxLifecycleSyncs)

\* event socket: timeout, error, short packet or another message type
WEventIdle(w) ==
    /\ workers[w].pc = "event"
    /\ workers' = [workers EXCEPT ![w].pc = "general"]
    /\ UNCHANGED <<wireVars, callbackVars, mixerVars, sessVars, jitterVars, ringVars, ptp, now, plast, nptp>>

\* event socket: a message of another domain, "continue"
WEventForeign(w) ==
    /\ workers[w].pc = "event"
    /\ workers' = [workers EXCEPT ![w].pc = "top"]
    /\ UNCHANGED <<wireVars, callbackVars, mixerVars, sessVars, jitterVars, ringVars, ptp, now, plast, nptp>>

\* general socket: a Follow_Up; it carries the master's time of the Sync it follows
WGeneralFollowUpOf(w, syncs, raws) ==
    \E raw \in raws, seq \in SyncSequences :
        LET me == workers[w]
            at == IF IsSome(me.t2) THEN Unwrap(me.t2) ELSE NowNs
            t1 == Some(Timestamp(at.sec, at.ns + raw))
            match == seq = me.sync_sequence
        IN  /\ me.pc = "general"
            /\ ptp.stats.sync_count < syncs
            /\ ptp' = IF match THEN process_sync(ptp, t1, me.t2, now) ELSE ptp
            /\ workers' = [workers EXCEPT
                  ![w].pc = "holdover",
                  ![w].applied = IF ptp' # ptp /\ me.applied < 2 THEN me.applied + 1
                                 ELSE me.applied,
                  ![w].stray = me.stray \/ (ptp' # ptp /\ ~(match /\ IsSome(me.t2)))]
            /\ plast' = IF match /\ IsSome(me.t2) THEN PtpStep("sync", raw) ELSE plast
            /\ UNCHANGED <<wireVars, callbackVars, mixerVars, sessVars, jitterVars, ringVars, now, nptp>>

WGeneralFollowUp(w) == WGeneralFollowUpOf(w, MaxLifecycleSyncs, RawOffsets)

\* general socket: timeout, error, short packet, Announce or another type
WGeneralIdle(w) ==
    /\ workers[w].pc = "general"
    /\ workers' = [workers EXCEPT ![w].pc = "holdover"]
    /\ UNCHANGED <<wireVars, callbackVars, mixerVars, sessVars, jitterVars, ringVars, ptp, now, plast, nptp>>

\* general socket: a message of another domain, "continue"
WGeneralForeign(w) ==
    /\ workers[w].pc = "general"
    /\ workers' = [workers EXCEPT ![w].pc = "top"]
    /\ UNCHANGED <<wireVars, callbackVars, mixerVars, sessVars, jitterVars, ringVars, ptp, now, plast, nptp>>

\* the sync timeout check that ends the iteration
WHoldover(w) ==
    /\ workers[w].pc = "holdover"
    /\ workers' = [workers EXCEPT ![w].pc = "top"]
    /\ ptp' = check_sync_timeout(ptp, now)
    /\ plast' = IF ptp'.state # ptp.state THEN PtpStep("holdover", 0) ELSE plast
    /\ UNCHANGED <<wireVars, callbackVars, mixerVars, sessVars, jitterVars, ringVars, now, nptp>>

\* a second passes
Tick ==
    /\ now < MaxTime
    /\ now' = now + 1
    /\ UNCHANGED <<wireVars, callbackVars, mixerVars, sessVars, jitterVars, ringVars, ptp, workers, plast, nptp>>

(***************************************************************************)
(* SpecPtp: the life cycle, start() and stop() in any order.               *)
(***************************************************************************)
NextPtp ==
    \/ PtpStart
    \/ PtpStop
    \/ \E w \in Workers : WSockets(w)
    \/ \E w \in Workers : WSocketsFail(w)
    \/ \E w \in Workers : WLoopTop(w)
    \/ \E w \in Workers : WEventSync(w)
    \/ \E w \in Workers : WEventSyncTwoStep(w)
    \/ \E w \in Workers : WEventIdle(w)
    \/ \E w \in Workers : WEventForeign(w)
    \/ \E w \in Workers : WGeneralFollowUp(w)
    \/ \E w \in Workers : WGeneralIdle(w)
    \/ \E w \in Workers : WGeneralForeign(w)
    \/ \E w \in Workers : WHoldover(w)
    \/ Tick

SpecPtp == Init /\ [][NextPtp]_vars

(***************************************************************************)
(* SpecPtpSlave: a clock that is started and left running beside a master  *)
(* that sends up to MaxSyncs syncs.                                        *)
(***************************************************************************)
NextPtpSlave ==
    \/ PtpStart
    \/ WSockets(1)
    \/ WSocketsFail(1)
    \/ WLoopTop(1)
    \/ WEventSyncOf(1, MaxSyncs, SlaveRawOffsets)
    \/ WEventSyncTwoStepOf(1, MaxSyncs)
    \/ WEventIdle(1)
    \/ WEventForeign(1)
    \/ WGeneralFollowUpOf(1, MaxSyncs, SlaveRawOffsets)
    \/ WGeneralIdle(1)
    \/ WGeneralForeign(1)
    \/ WHoldover(1)
    \/ Tick

SpecPtpSlave == Init /\ [][NextPtpSlave]_vars


(***************************************************************************)
(* Properties of the PTP clock (SpecPtpSlave, SpecPtp)                     *)
(***************************************************************************)
\* since start, every sync carried the raw offset r
ConstantRaw(r) == plast.op # "new" /\ plast.raws = {r}

WithinPercent(v, target, pct) ==
    IF v >= target THEN (v - target) * 100 <= target * pct
    ELSE (target - v) * 100 <= target * pct

\* C22: the state is Slave only if at least one sync with t1 and t2 known has
\* been processed; a successful sync leaves the state Slave; Holdover is
\* entered only from Slave and only when more than 3 s have passed since the
\* last successful sync; with a constant raw offset of 1_000_000 ns, after 8
\* syncs offset_ns() is within 1% of 1_000_000 and the state is Slave.
C22_SlaveStateMachine ==
    /\ ptp.state = "Slave" => ptp.stats.sync_count >= 1
    /\ plast.op = "sync" => ptp.state = "Slave"
    /\ ptp.state = "Holdover" => plast.op = "holdover"
    /\ plast.op = "holdover" =>
          /\ plast.state = "Slave"
          /\ ptp.state = "Holdover"
          /\ IsSome(ptp.last_sync) /\ now - Unwrap(ptp.last_sync) > 3
    /\ (plast.op = "sync" /\ ConstantRaw(1000000) /\ ptp.stats.sync_count >= 8) =>
          /\ WithinPercent(ptp.offset_ns, 1000000, 1)
          /\ ptp.state = "Slave"

\* the eighth sync of a master whose raw offset is constant has been processed
C22_Witness ==
    /\ plast.op = "sync" /\ ConstantRaw(1000000) /\ ptp.stats.sync_count = 8
    /\ plast.state = "Slave"
    /\ now > HoldoverSecs


C24_EverySyncIsFiltered ==
    plast.op = "sync" => ptp.offset_ns = TruncDiv(7 * plast.offset_ns + plast.raw, 8)

\* the threads inside the loop of run_ptp_loop
InLoop == {w \in Workers : workers[w].pc \in {"top", "event", "general", "holdover"}}

\* C25: for any sequence of start() and stop() calls on one clock, at most one
\* worker loop is live at any time.
C25_AtMostOneWorkerLoop == Cardinality(InLoop) <= 1

\* C26: if the worker cannot create its sockets, the clock is not left marked
\* as running, in state Listening, with no live worker.
C26_NotRunningWithoutWorker ==
    ~(ptp.running /\ ptp.state = "Listening" /\ LiveWorkers = {})


(***************************************************************************)
(* SpecRtp: RtpHeader::to_bytes and RtpHeader::from_bytes applied once to  *)
(* a header or to a byte string; rtp keeps the call and its result.        *)
(***************************************************************************)
\* 0xDEADBEEF, 0xCAFEBABE, 0xFFFFFFFF
U32Inputs == {U32(0, 0), U32(57005, 48879), U32(51966, 47806), U32(65535, 65535)}
LegalHeaders ==
    [version : {2}, padding : BOOLEAN, extension : BOOLEAN, csrc_count : {0, 5, 15},
     marker : BOOLEAN, payload_type : {0, 97, 127}, sequence : {0, 12345, 65535},
     timestamp : U32Inputs, ssrc : {U32(51966, 47806), U32(65535, 65535)}]
OtherVersions == {0, 1, 3}
\* the payload that follows the header in a packet
PayloadInputs == {<<>>, <<0, 0, 1>>}

\* header.to_bytes(), then RtpHeader::from_bytes on the packet
RtpRoundTrip ==
    /\ rtp.op = "new"
    /\ \E h \in LegalHeaders, payload \in PayloadInputs :
           LET bytes == RtpHeader_to_bytes(h)
           IN  rtp' = [op |-> "roundtrip", header |-> h, data |-> bytes \o payload,
                       parsed |-> RtpHeader_from_bytes(bytes \o payload)]
    /\ UNCHANGED <<serverVars, sapVars, sdpVars>>

\* RtpHeader::from_bytes on a datagram cut short or of another version
RtpParse ==
    /\ rtp.op = "new"
    /\ \E h \in LegalHeaders, v \in OtherVersions \cup {2}, n \in 0..RtpHeaderLen :
           LET data == SubSeq(RtpHeader_to_bytes([h EXCEPT !.version = v]), 1, n)
           IN  /\ h.sequence = 12345 /\ h.timestamp = U32(0, 0)
               /\ rtp' = [op |-> "parse", header |-> [h EXCEPT !.version = v], data |-> data,
                          parsed |-> RtpHeader_from_bytes(data)]
    /\ UNCHANGED <<serverVars, sapVars, sdpVars>>

NextRtp ==
    \/ RtpRoundTrip
    \/ RtpParse

SpecRtp == Init /\ [][NextRtp]_vars

(***************************************************************************)
(* Properties of the RTP header (SpecRtp)                                  *)
(***************************************************************************)
\* C27: for every legal header h, from_bytes(to_bytes(h)) is a header equal to
\* h in every field; from_bytes is None for fewer than 12 bytes or a version
\* other than 2.
C27_HeaderRoundTrip ==
    /\ rtp.op = "roundtrip" => rtp.parsed = Some(rtp.header)
    /\ (rtp.op = "parse" /\ (Len(rtp.data) < 12 \/ rtp.header.version # 2)) =>
           rtp.parsed = None

\* a header with every flag set and the largest field values went round
C27_Witness ==
    /\ rtp.op = "roundtrip"
    /\ rtp.header.marker /\ rtp.header.padding /\ rtp.header.extension
    /\ rtp.header.csrc_count = 15 /\ rtp.header.payload_type = 127
    /\ rtp.header.sequence = 65535
    /\ rtp.header.timestamp = U32(65535, 65535)
    /\ IsSome(rtp.parsed)


(***************************************************************************)
(* SpecSdp: generate_sdp and parse_sdp applied once to a stream record or  *)
(* to an SDP text; sdp keeps the call and its result.                      *)
(***************************************************************************)
\* "Mix", "Test AES67 Stream", "", " Mix"
NameInputsSdp == {<<77, 105, 120>>, <<84, 101, 115, 116, 32, 65, 69, 83, 54, 55, 32, 83, 116, 114, 101, 97, 109>>, <<>>, <<32, 77, 105, 120>>}
\* "test123", "audiomultiverse_7", ""
SessionIdInputs == {<<116, 101, 115, 116, 49, 50, 51>>, <<97, 117, 100, 105, 111, 109, 117, 108, 116, 105, 118, 101, 114, 115, 101, 95, 55>>, <<>>}
\* "192.168.1.1"
OriginInputs == {<<49, 57, 50, 46, 49, 54, 56, 46, 49, 46, 49>>}
StreamRecords ==
    [name : NameInputsSdp, session_id : SessionIdInputs, origin : OriginInputs,
     multicast_addr : {<<239, 69, 1, 1>>, <<224, 0, 0, 251>>}, port : {5004, 6000},
     channels : {2, 8}, sample_rate : {48000, 96000}, bits_per_sample : {16, 24, 32},
     ptime_us : {1000, 125}, direction : {"Send"}, sdp : {<<>>}]
SessionVersions == {1704067200}

\* the text of test_parse_sdp, its lines ended by "\n", and the same without s=
SdpTexts ==
    {<<118, 61, 48, 10, 111, 61, 45, 32, 49, 50, 51, 52, 53, 32, 49, 32, 73, 78, 32, 73, 80, 52, 32, 49, 57, 50, 46, 49, 54, 56, 46, 49, 46, 49, 48, 48, 10, 115, 61, 84, 101, 115, 116, 32, 65, 69, 83, 54, 55, 32, 83, 116, 114, 101, 97, 109, 10, 99, 61, 73, 78, 32, 73, 80, 52, 32, 50, 51, 57, 46, 54, 57, 46, 49, 46, 49, 47, 54, 52, 10, 116, 61, 48, 32, 48, 10, 109, 61, 97, 117, 100, 105, 111, 32, 53, 48, 48, 52, 32, 82, 84, 80, 47, 65, 86, 80, 32, 57, 55, 10, 97, 61, 114, 116, 112, 109, 97, 112, 58, 57, 55, 32, 76, 50, 52, 47, 52, 56, 48, 48, 48, 47, 50, 10, 97, 61, 112, 116, 105, 109, 101, 58, 49, 46, 48, 48, 48, 10>>,
     <<118, 61, 48, 10, 111, 61, 45, 32, 49, 50, 51, 52, 53, 32, 49, 32, 73, 78, 32, 73, 80, 52, 32, 49, 57, 50, 46, 49, 54, 56, 46, 49, 46, 49, 48, 48, 10, 99, 61, 73, 78, 32, 73, 80, 52, 32, 50, 51, 57, 46, 54, 57, 46, 49, 46, 49, 47, 54, 52, 10, 109, 61, 97, 117, 100, 105, 111, 32, 53, 48, 48, 52, 32, 82, 84, 80, 47, 65, 86, 80, 32, 57, 55, 10, 97, 61, 114, 116, 112, 109, 97, 112, 58, 57, 55, 32, 76, 49, 54, 47, 52, 52, 49, 48, 48, 47, 56, 10>>,
     <<118, 61, 48, 10, 115, 61, 78, 111, 32, 79, 114, 105, 103, 105, 110, 10>>}

SdpFields == {"name", "channels", "sample_rate", "bits_per_sample", "port", "multicast_addr"}

\* generate_sdp(R), then parse_sdp on the text
SdpRoundTrip ==
    /\ sdp.op = "new"
    /\ \E R \in StreamRecords, v \in SessionVersions :
           LET text == generate_sdp(R, v)
           IN  sdp' = [op |-> "roundtrip", record |-> R, text |-> text,
                       parsed |-> parse_sdp(text, R.origin)]
    /\ UNCHANGED <<serverVars, rtpVars, sapVars>>

\* parse_sdp on a text received from another device
SdpParse ==
    /\ sdp.op = "new"
    /\ \E text \in SdpTexts :
           sdp' = [op |-> "parse", record |-> <<>>, text |-> text,
                   parsed |-> parse_sdp(text, <<49, 57, 50, 46, 49, 54, 56, 46, 49, 46, 49, 48, 48>>)]
    /\ UNCHANGED <<serverVars, rtpVars, sapVars>>

NextSdp ==
    \/ SdpRoundTrip
    \/ SdpParse

SpecSdp == Init /\ [][NextSdp]_vars

(***************************************************************************)
(* Properties of SDP (SpecSdp)                                             *)
(***************************************************************************)
\* C30: for any stream record R, parse_sdp(generate_sdp(R)) succeeds and yields
\* a record equal to R on the fields name, channels, sample_rate,
\* bits_per_sample, port and multicast_addr.
C30_SdpRoundTrip ==
    sdp.op = "roundtrip" =>
        /\ IsSome(sdp.parsed)
        /\ \A f \in SdpFields : Unwrap(sdp.parsed)[f] = sdp.record[f]


(***************************************************************************)
(* SpecSap: the listener of one SapDiscovery on the SAP multicast group.   *)
(* wire holds the datagrams sent to the group and not yet received, each   *)
(* with a note of who sent it and what it stands for; the sender's own     *)
(* packets are received like any other.  saplog keeps, for each origin     *)
(* (username, session id) of a received packet that carries a session      *)
(* description or an origin line, the latest such packet.                  *)
(***************************************************************************)
\* "192.168.1.1", "192.168.1.100"
LocalIp == <<49, 57, 50, 46, 49, 54, 56, 46, 49, 46, 49>>
DeviceIp == <<49, 57, 50, 46, 49, 54, 56, 46, 49, 46, 49, 48, 48>>
\* fe80::1, the originating source of a device that announces over IPv6
DeviceIp6 == <<254, 128, 0, 0, 0, 0, 0, 0, 0, 0, 0, 0, 0, 0, 0, 1>>
\* "X" and "1", "2": the sessions X_1 and X_2
DeviceUser == <<88>>
DeviceSessions == {<<49>>, <<50>>}
DeviceVersions == {1, 2}
DeviceForms == {"mime", "bare", "ipv6"}
DevicePayloads == {"description", "origin"}
\* "Stage"
DeviceName(version) == <<83, 116, 97, 103, 101, 32>> \o DigitsOf(version)

\* "o=X <sess> <version> IN IP4 192.168.1.100"
DeviceOriginLine(sess, version) ==
    Txt_o \o DeviceUser \o <<32>> \o sess \o <<32>> \o DigitsOf(version) \o Txt_in_ip4 \o DeviceIp

\* the description of an 8-channel 48 kHz L24 stream on 239.69.1.7:5004
DeviceSdp(sess, version) ==
    Txt_v0 \o CRLF
    \o DeviceOriginLine(sess, version) \o CRLF
    \o Txt_s \o DeviceName(version) \o CRLF
    \o <<99, 61, 73, 78, 32, 73, 80, 52, 32, 50, 51, 57, 46, 54, 57, 46, 49, 46, 55, 47, 54, 52>> \o CRLF
    \o Txt_t00 \o CRLF
    \o <<109, 61, 97, 117, 100, 105, 111, 32, 53, 48, 48, 52, 32, 82, 84, 80, 47, 65, 86, 80, 32, 57, 55>> \o CRLF
    \o <<97, 61, 114, 116, 112, 109, 97, 112, 58, 57, 55, 32, 76, 50, 52, 47, 52, 56, 48, 48, 48, 47, 56>> \o CRLF

\* a SAP packet of another device: IPv4 or IPv6 originating source, no
\* authentication data, with or without the MIME type
DevicePacket(form, deletion, payload) ==
    <<SapFlagsV1 + (IF deletion THEN SapDeletionBit ELSE 0)
                 + (IF form = "ipv6" THEN SapAddressTypeBit ELSE 0), 0>>
    \o u16_to_be_bytes(WrappingSum(payload))
    \o (IF form = "ipv6" THEN DeviceIp6 ELSE <<192, 168, 1, 100>>)
    \o (IF form = "bare" THEN <<>> ELSE Txt_mime)
    \o payload

\* the streams this server announces
OwnStreams ==
    [name : {<<77, 97, 105, 110, 32, 77, 105, 120>>}, session_id : {<<97, 117, 100, 105, 111, 109, 117, 108, 116, 105, 118, 101, 114, 115, 101, 95, 55>>, <<116, 101, 115, 116, 49, 50, 51>>}, origin : {LocalIp},
     multicast_addr : {<<239, 69, 1, 1>>}, port : {5004}, channels : {8},
     sample_rate : {48000}, bits_per_sample : {24}, ptime_us : {1000},
     direction : {"Send"}, sdp : {<<>>}]

\* the entry key the listener derives from an origin: "<username>_<session id>"
KeyOf(origin) == origin[1] \o <<95>> \o origin[2]

LogPut(log, rec) == {r \in log : r.origin # rec.origin} \cup {rec}

\* SapDiscovery::announce
SapAnnounce ==
    /\ nsap < MaxSapPackets
    /\ \E R \in OwnStreams, v \in SessionVersions :
           LET text == generate_sdp(R, v)
           IN  /\ wire' = Append(wire,
                      [data |-> build_sap_packet(R.session_id, text, FALSE), src |-> LocalIp,
                       note |-> [by |-> "announce", session_id |-> R.session_id, described |-> TRUE,
                                 origin |-> <<<<45>>, R.session_id>>, deletion |-> FALSE,
                                 name |-> R.name, sdp |-> text]])
               /\ sap' = [sap EXCEPT !.announced = Append(@, R)]
    /\ nsap' = nsap + 1
    /\ UNCHANGED <<serverVars, rtpVars, sdpVars, saplog>>

\* SapDiscovery::remove_announcement (explicit withdrawal, or Drop of the backend)
SapRemoveAnnouncement ==
    /\ nsap < MaxSapPackets
    /\ \E R \in OwnStreams :
           /\ wire' = Append(wire,
                  [data |-> build_sap_packet(R.session_id, <<>>, TRUE), src |-> LocalIp,
                   note |-> [by |-> "remove_announcement", session_id |-> R.session_id,
                             described |-> FALSE, origin |-> <<<<45>>, R.session_id>>,
                             deletion |-> TRUE, name |-> <<>>, sdp |-> <<>>]])
           /\ sap' = [sap EXCEPT !.announced =
                          SelectSeq(@, LAMBDA a : a.session_id # R.session_id)]
    /\ nsap' = nsap + 1
    /\ UNCHANGED <<serverVars, rtpVars, sdpVars, saplog>>

\* another device announces a session, or deletes it with the same packet and
\* the deletion bit set, or with the origin line as the payload
DeviceSends ==
    /\ nsap < MaxSapPackets
    /\ \E sess \in DeviceSessions, v \in DeviceVersions, form \in DeviceForms,
          deletion \in BOOLEAN, p \in DevicePayloads :
           /\ p = "origin" => deletion
           /\ LET text == IF p = "origin" THEN DeviceOriginLine(sess, v) ELSE DeviceSdp(sess, v)
              IN  wire' = Append(wire,
                      [data |-> DevicePacket(form, deletion, text), src |-> DeviceIp,
                       note |-> [by |-> "device", session_id |-> sess, described |-> TRUE,
                                 origin |-> <<DeviceUser, sess>>, deletion |-> deletion,
                                 name |-> DeviceName(v), sdp |-> text]])
    /\ nsap' = nsap + 1
    /\ UNCHANGED <<serverVars, rtpVars, sdpVars, sap, saplog>>

\* run_sap_listener: recv_from returns the next datagram
SapListenerReceive ==
    /\ wire # <<>>
    /\ LET d == Head(wire)
       IN  /\ sap' = [sap EXCEPT !.streams = listener_receive(@, d.data, d.src)]
           /\ saplog' = IF d.note.described THEN LogPut(saplog, d.note) ELSE saplog
    /\ wire' = Tail(wire)
    /\ UNCHANGED <<serverVars, rtpVars, sdpVars, nsap>>

NextSap ==
    \/ SapAnnounce
    \/ SapRemoveAnnouncement
    \/ DeviceSends
    \/ SapListenerReceive

SpecSap == Init /\ [][NextSap]_vars

(***************************************************************************)
(* Properties of SAP discovery (SpecSap)                                   *)
(***************************************************************************)
EntriesOf(origin) == {e \in sap.streams : e.key = KeyOf(origin)}

\* C28: after the listener has processed any sequence of valid announcement and
\* deletion packets, streams() has exactly one entry for each session id whose
\* most recent packet was an announcement, the one of that announcement, and
\* none for an id whose most recent packet had the deletion bit set.
C28_StreamsFollowPackets ==
    /\ \A r \in saplog :
           IF r.deletion THEN EntriesOf(r.origin) = {}
           ELSE /\ Cardinality(EntriesOf(r.origin)) = 1
                /\ \A e \in EntriesOf(r.origin) : e.value.name = r.name
    /\ \A e \in sap.streams : \E r \in saplog : e.key = KeyOf(r.origin)

\* the entries discovered from announce(R) with R.session_id = id
DiscoveredFrom(streams, id) ==
    {e \in streams : \E r \in saplog :
         r.by = "announce" /\ r.session_id = id /\ ~r.deletion /\ e.key = KeyOf(r.origin)}

\* C29: when the listener processes the packet that remove_announcement sent for
\* a stream it has discovered from announce(R), the entry of that stream is
\* gone from streams().
C29_WithdrawalEndToEnd ==
    [][(/\ wire # <<>>
        /\ Head(wire).note.by = "remove_announcement"
        /\ wire' = Tail(wire))
       => DiscoveredFrom(sap'.streams, Head(wire).note.session_id) = {}]_vars


(***************************************************************************)
(* SpecEngine: sessions send subscribe and unsubscribe commands over the   *)
(* command channel; the audio thread initialises the AES67 backend, drains *)
(* the channel every 10 ms and answers each command on its reply channel;  *)
(* main clears audio_running at shutdown.  Each RtpReceiver has a worker   *)
(* that runs until it reads its running flag as false.                     *)
(***************************************************************************)
Requesters == 1..NumRequesters
\* the ids of two announced sessions, and an id the listener never saw
KnownIds == {"X_1", "X_2"}
RequestIds == KnownIds \cup {"zz"}
otherVars == <<mixerVars, sessVars, jitterVars, ringVars, callbackVars, ptpVars, rtpVars,
               sdpVars, wire, saplog, nsap>>

\* the entries the listener makes of the announcements of X_1 and X_2, with
\* the fields of the stream that subscribing reads
Announced ==
    {[key |-> id, value |-> [session_id |-> id, name |-> "Stage", channels |-> 8,
                             sample_rate |-> 48000, multicast_addr |-> <<239, 69, 1, 7>>]] :
         id \in KnownIds}

\* the SAP listener receives the announcement of a session
SapDiscovers ==
    /\ \E x \in Announced :
           /\ x \notin sap.streams
           /\ sap' = [sap EXCEPT !.streams = HashMap_insert(@, x.key, x.value)]
    /\ UNCHANGED <<otherVars, engineVars>>

\* init_aes67 in the audio thread succeeds, or fails and leaves no backend
EngInitAes67 ==
    /\ engine.pc = "init"
    /\ \E ok \in BOOLEAN :
           engine' = [engine EXCEPT !.pc = "top",
                          !.aes67_backend = IF ok THEN Some(Aes67Backend_new) ELSE None]
    /\ UNCHANGED <<otherVars, sap, audio_running, cmd_queue, cmd_open, receivers, rq, elog, nreq>>

\* subscribe_stream / unsubscribe_stream up to tx.send, by a session that has
\* no command outstanding: the command is accepted while the channel has room
RqSendOf(r, send_kinds) ==
    /\ rq[r].pc \in {"idle", "done"}
    /\ nreq < MaxRequests
    /\ cmd_open
    /\ Len(cmd_queue) < CommandCapacity
    /\ \E kind \in send_kinds, id \in RequestIds :
           /\ rq' = [rq EXCEPT ![r] = [pc |-> "waiting", n |-> @.n + 1, kind |-> kind,
                                       stream_id |-> id, results |-> 0, result |-> None,
                                       reply |-> None]]
           /\ cmd_queue' = Append(cmd_queue, [from |-> r, n |-> rq[r].n + 1, kind |-> kind,
                                              stream_id |-> id])
           /\ elog' = [elog EXCEPT !.enq = Append(@, <<r, rq[r].n + 1>>)]
    /\ nreq' = nreq + 1
    /\ UNCHANGED <<otherVars, sap, engine, audio_running, cmd_open, receivers>>

RqSend(r) == RqSendOf(r, {"subscribe", "unsubscribe"})

\* tx.send fails because the receiver is gone: "Command send error"
RqSendClosed(r) ==
    /\ rq[r].pc \in {"idle", "done"}
    /\ nreq < MaxRequests
    /\ ~cmd_open
    /\ \E kind \in {"subscribe", "unsubscribe"}, id \in RequestIds :
           rq' = [rq EXCEPT ![r] =
                      [pc |-> "done", n |-> @.n + 1, kind |-> kind, stream_id |-> id,
                       results |-> 1, result |-> Some(Err("Command send error")),
                       reply |-> Some(IF kind = "subscribe"
                                      THEN Arm_SubscribeAes67Stream(Err("Command send error"))
                                      ELSE Arm_UnsubscribeAes67Stream(id, Err("Command send error")))]]
    /\ nreq' = nreq + 1
    /\ UNCHANGED <<otherVars, sap, engine, audio_running, cmd_queue, cmd_open, receivers, elog>>

\* main's command loop: audio_running is set, process_commands is called
EngLoopTop ==
    /\ engine.pc = "top"
    /\ audio_running
    /\ engine' = [engine EXCEPT !.pc = "recv"]
    /\ UNCHANGED <<otherVars, sap, audio_running, cmd_queue, cmd_open, receivers, rq, elog, nreq>>

\* process_commands: try_recv yields a command, which is pushed on cmds
EngRecv ==
    /\ engine.pc = "recv"
    /\ cmd_queue # <<>>
    /\ engine' = [engine EXCEPT !.cmds = Append(@, try_recv(cmd_queue).cmd)]
    /\ cmd_queue' = try_recv(cmd_queue).rest
    /\ UNCHANGED <<otherVars, sap, audio_running, cmd_open, receivers, rq, elog, nreq>>

\* process_commands: try_recv finds the channel empty
EngDrained ==
    /\ engine.pc = "recv"
    /\ cmd_queue = <<>>
    /\ engine' = [engine EXCEPT !.pc = "handle"]
    /\ UNCHANGED <<otherVars, sap, audio_running, cmd_queue, cmd_open, receivers, rq, elog, nreq>>

\* process_commands: the next collected command is handled and its result
\* sent on its reply channel, where the session takes it
EngHandle ==
    /\ engine.pc = "handle"
    /\ engine.cmds # <<>>
    /\ \E created \in BOOLEAN :
           LET cmd == for_cmd_in_commands(engine.cmds).cmd
               out == IF cmd.kind = "subscribe"
                      THEN handle_subscribe_stream(engine, receivers, sap.streams,
                                                   cmd.stream_id, 0, created)
                      ELSE handle_unsubscribe_stream(engine, receivers, cmd.stream_id)
               reply == IF cmd.kind = "subscribe" THEN Arm_SubscribeAes67Stream(out.result)
                        ELSE Arm_UnsubscribeAes67Stream(cmd.stream_id, out.result)
           IN  /\ engine' = [out.engine EXCEPT !.cmds = for_cmd_in_commands(engine.cmds).rest]
               /\ receivers' = out.receivers
               /\ rq' = [rq EXCEPT ![cmd.from].pc = "done",
                                   ![cmd.from].results = @ + 1,
                                   ![cmd.from].result = Some(out.result),
                                   ![cmd.from].reply = Some(reply)]
               /\ elog' = [elog EXCEPT !.hnd = Append(@, <<cmd.from, cmd.n>>),
                                       !.last = [kind |-> cmd.kind, stream_id |-> cmd.stream_id,
                                                 before |-> engine, after |-> out.engine,
                                                 result |-> out.result, reply |-> reply]]
    /\ UNCHANGED <<otherVars, sap, audio_running, cmd_queue, cmd_open, nreq>>

\* process_commands returns; the thread sleeps 10 ms
EngSleep ==
    /\ engine.pc = "handle"
    /\ engine.cmds = <<>>
    /\ engine' = [engine EXCEPT !.pc = "top"]
    /\ UNCHANGED <<otherVars, sap, audio_running, cmd_queue, cmd_open, receivers, rq, elog, nreq>>

\* main, after the API server has ended: audio_running.store(false)
MainStop ==
    /\ audio_running
    /\ audio_running' = FALSE
    /\ UNCHANGED <<otherVars, sap, engine, cmd_queue, cmd_open, receivers, rq, elog, nreq>>

\* the loop reads audio_running as false and the thread ends: the engine is
\* dropped, with it the channel's receiver and the commands still queued,
\* whose reply channels close ("Response error"); Drop of the backend
\* disconnects
EngExit ==
    /\ engine.pc = "top"
    /\ ~audio_running
    /\ engine' = [engine EXCEPT !.pc = "exited", !.aes67_backend = None]
    /\ cmd_open' = FALSE
    /\ cmd_queue' = <<>>
    /\ rq' = [r \in Requesters |->
                 IF rq[r].pc = "waiting"
                 THEN [rq[r] EXCEPT !.pc = "done", !.results = @ + 1,
                           !.result = Some(Err("Response error")),
                           !.reply = Some(IF rq[r].kind = "subscribe"
                                          THEN Arm_SubscribeAes67Stream(Err("Response error"))
                                          ELSE Arm_UnsubscribeAes67Stream(rq[r].stream_id,
                                                                          Err("Response error")))]
                 ELSE rq[r]]
    /\ receivers' = IF IsSome(engine.aes67_backend)
                       /\ IsSome(Unwrap(engine.aes67_backend).rtp_receiver)
                    THEN RtpReceiver_stop(receivers, Unwrap(Unwrap(engine.aes67_backend).rtp_receiver))
                    ELSE receivers
    /\ UNCHANGED <<otherVars, sap, audio_running, elog, nreq>>

\* the worker of receiver i reads its running flag as false and ends
RxWorkerExit(i) ==
    /\ receivers[i].worker
    /\ ~receivers[i].running
    /\ receivers' = [receivers EXCEPT ![i].worker = FALSE]
    /\ UNCHANGED <<otherVars, sap, engine, audio_running, cmd_queue, cmd_open, rq, elog, nreq>>

EngineStep ==
    \/ EngInitAes67
    \/ EngLoopTop
    \/ EngRecv
    \/ EngDrained
    \/ EngHandle
    \/ EngSleep
    \/ EngExit

NextEngine ==
    \/ SapDiscovers
    \/ \E r \in Requesters : RqSend(r)
    \/ \E r \in Requesters : RqSendClosed(r)
    \/ EngineStep
    \/ MainStop
    \/ \E i \in DOMAIN receivers : RxWorkerExit(i)

SpecEngine == Init /\ [][NextEngine]_vars

\* the audio thread is scheduled
SpecEngineFair == SpecEngine /\ WF_vars(EngineStep)


(***************************************************************************)
(* Properties of the command channel (SpecEngineFair, SpecEngine)          *)
(***************************************************************************)
IsPrefix(a, b) == Len(a) <= Len(b) /\ SubSeq(b, 1, Len(a)) = a

\* no session has more than one result for its command, a session that has
\* stopped waiting has one, commands are handled in the order they were
\* accepted, and nobody waits on an engine that is gone
AnsweredOnceInOrder ==
    /\ \A r \in Requesters :
           /\ rq[r].results <= 1
           /\ rq[r].pc = "done" => rq[r].results = 1 /\ IsSome(rq[r].result)
           /\ rq[r].pc = "waiting" => rq[r].results = 0
           /\ engine.pc = "exited" => rq[r].pc # "waiting"
    /\ IsPrefix(elog.hnd, elog.enq)

\* C31: every command accepted onto the channel gets exactly one result on its
\* reply channel while the audio thread keeps running its loop, commands are
\* handled in the order they were enqueued, and when the loop has ended the
\* waiting session gets an error instead of waiting forever.
C31_CommandsAnswered ==
    /\ []AnsweredOnceInOrder
    /\ \A r \in Requesters : (rq[r].pc = "waiting") ~> (rq[r].pc = "done")

C31_Witness ==
    /\ Len(elog.hnd) >= 2
    /\ elog.hnd[1][1] # elog.hnd[2][1]
    /\ \E r \in Requesters : rq[r].pc = "done" /\ Unwrap(rq[r].result).ok
    /\ \E r \in Requesters : rq[r].pc = "waiting"


(***************************************************************************)
(* Properties of subscribing (SpecEngine)                                  *)
(***************************************************************************)
\* the stream an engine is subscribed to, if any
Subscribed(e) ==
    IF e.aes67_backend = None THEN None ELSE Unwrap(e.aes67_backend).connected_device

\* C32: an unsubscribe command naming a session id that is unknown or not the
\* currently subscribed stream is answered with an error, is not broadcast, and
\* leaves the subscription (receiver, connected device, audio source) as it was.
C32_UnknownUnsubscribeRejected ==
    (elog.last.kind = "unsubscribe"
     /\ Subscribed(elog.last.before) # Some(elog.last.stream_id))
    => /\ ~elog.last.result.ok
       /\ elog.last.reply.type = "error"
       /\ ~elog.last.reply.bcast
       /\ elog.last.after.aes67_backend = elog.last.before.aes67_backend
       /\ elog.last.after.audio_source = elog.last.before.audio_source

\* the receivers whose worker runs and has not been told to stop
RunningReceivers == {i \in DOMAIN receivers : receivers[i].worker /\ receivers[i].running}

\* C33: after any sequence of subscribe and unsubscribe commands at most one
\* RTP receive worker is running, and none once no stream is subscribed.
C33_AtMostOneReceiverWorker ==
    /\ Cardinality(RunningReceivers) <= 1
    /\ Subscribed(engine) = None => RunningReceivers = {}


(***************************************************************************)
(* Follow_Up handling of run_ptp_loop, checked in SpecPtpSlave.            *)
(***************************************************************************)
\* C34: a Follow_Up changes the clock only if its sequence number equals that
\* of the Sync received last and a reception time t2 is recorded, and the
\* Sync received last has updated the clock at most once.
C34_FollowUpOncePerSync ==
    \A w \in Workers : ~workers[w].stray /\ workers[w].applied <= 1

\* the first two parts alone: no Follow_Up changes the clock without a match
C34_NoStrayFollowUp == \A w \in Workers : ~workers[w].stray

(***************************************************************************)
(* SpecPtpDomain: a running clock beside a master of its own domain and    *)
(* senders of another domain.  The loop thread is scheduled fairly; which  *)
(* message a receive finds is the network's choice.                        *)
(***************************************************************************)
DomainRawOffsets == {1000000}

\* one step of the loop thread
WorkerStep ==
    \/ WSockets(1)
    \/ WLoopTop(1)
    \/ WEventSyncOf(1, MaxSyncs, DomainRawOffsets)
    \/ WEventSyncTwoStepOf(1, MaxSyncs)
    \/ WEventIdle(1)
    \/ WEventForeign(1)
    \/ WGeneralFollowUpOf(1, MaxSyncs, DomainRawOffsets)
    \/ WGeneralIdle(1)
    \/ WGeneralForeign(1)
    \/ WHoldover(1)

NextPtpDomain ==
    \/ PtpStart
    \/ WorkerStep
    \/ Tick

SpecPtpDomain == Init /\ [][NextPtpDomain]_vars /\ WF_vars(WorkerStep)

\* more than 3 s have passed since the last sync and the clock is still Slave
SyncOverdue ==
    /\ ptp.state = "Slave"
    /\ IsSome(ptp.last_sync)
    /\ now - Unwrap(ptp.last_sync) > HoldoverSecs

\* C35: a message of another domain leaves the clock alone, and a Slave clock
\* whose last sync is more than 3 s old enters Holdover (or is synchronised
\* again) whatever arrives from other domains.
C35_ForeignDomainNeverDelays ==
    /\ [][(WEventForeign(1) \/ WGeneralForeign(1)) => ptp' = ptp]_vars
    /\ SyncOverdue ~> ~SyncOverdue

\* the first part alone
C35_ForeignDomainChangesNothing ==
    [][(WEventForeign(1) \/ WGeneralForeign(1)) => ptp' = ptp]_vars

(***************************************************************************)
(* The meter update of the audio callback, checked in SpecCallback.        *)
(***************************************************************************)
\* C36: meter attack is instantaneous: when update_meter(id, peak) returns,
\* the meter of channel id is at least peak, whatever it was before.
C36_MeterAttackInstantaneous ==
    [][cb.pc = "in_meter" /\ cb'.pc # "in_meter"
          => meters'[cb.ch].meter_peak >= Abs(cb.data[CbIdx])]_vars

(***************************************************************************)
(* Concurrent disconnects of the WebSocket sessions.                        *)
(***************************************************************************)
\* SpecLeave: three sessions connect, are idle, and leave; the broadcast tasks
\* forward what the hub holds.
NextLeave ==
    \E c \in Sessions :
        \/ Connect(c)
        \/ Welcome(c)
        \/ Close(c)
        \/ CleanupCount(c)
        \/ CleanupNotify(c)
        \/ Forward(c)
        \/ Lagged(c)

SpecLeave == Init /\ [][NextLeave]_vars

\* every session was connected before the first one left: session c was
\* counted as the c-th client and its Welcome was written
AllConnectedFirst ==
    \A c \in Sessions :
        /\ pc[c] \notin {"new", "welcome"}
        /\ local[c].client_num = c
        /\ Len(sent[c]) > 0

\* no disconnect is in progress
Disconnecting == {c \in Sessions : pc[c] \in {"cleanup", "notify"}}

\* a session that stays, with its broadcast task alive and nothing left to
\* receive or lost
Remaining(c) ==
    /\ pc[c] \in {"idle", "reply", "perr", "hub"}
    /\ rx_alive[c] /\ ~lagged[c] /\ Backlog(c) = 0

CountsSentTo(c) == SelectSeq(sent[c], LAMBDA e : e.msg.type = "client_count_changed")

\* C37: when several clients have disconnected, none has connected meanwhile
\* and all disconnects are processed, the last client_count_changed a
\* remaining client has received carries the value of the counter.
C37_LastCountIsFinal ==
    (/\ AllConnectedFirst
     /\ Disconnecting = {}
     /\ Cardinality({c \in Sessions : pc[c] = "done"}) >= 2) =>
        \A c \in Sessions :
            Remaining(c) =>
                /\ CountsSentTo(c) # <<>>
                /\ CountsSentTo(c)[Len(CountsSentTo(c))].msg.count = client_count

(***************************************************************************)
(* Updates across a connect, checked in Spec.                              *)
(***************************************************************************)
\* the state snapshot of the Welcome written to session c
Snapshot(c) == sent[c][1].msg.state

\* frame k changed the mixer
Mutated(k) == cmdlog[k].post # cmdlog[k].pre

\* the snapshot of session c was taken when frame k had been applied: it is
\* the mixer state left by frame k or by a later frame
Reflected(c, k) == \E j \in k..Len(cmdlog) : Snapshot(c) = Mixer_get_state(cmdlog[j].post)

\* the message of frame k is on the hub behind the cursor of session c, or
\* session c has been sent it from the hub
Delivered(c, k) ==
    \E i \in 1..Len(hub) :
        /\ hub[i].k = k
        /\ (i >= rx_next[c] \/ ReceivedVia(c, k, "hub"))

\* a session whose Welcome is written and whose receiver has missed nothing
Welcomed(c) ==
    /\ pc[c] \in {"idle", "reply", "perr", "hub"}
    /\ rx_alive[c] /\ ~lagged[c]

\* C38: for a session that connected while others were mutating, every
\* mutation whose handler has finished is in the snapshot of its Welcome or
\* reaches it as a hub message.
C38_NoUpdateLostAcrossConnect ==
    \A c \in Clients : Welcomed(c) =>
        \A k \in Frames :
            (Mutated(k) /\ cmdlog[k].by # c /\ ~InFlight(k)) =>
                Reflected(c, k) \/ Delivered(c, k)

\* the same for the mutations whose reply could be written to the originator
C38_NoAnsweredUpdateLost ==
    \A c \in Clients : Welcomed(c) =>
        \A k \in Frames :
            (Mutated(k) /\ cmdlog[k].by # c /\ ~InFlight(k) /\ ~cmdlog[k].lost) =>
                Reflected(c, k) \/ Delivered(c, k)

(***************************************************************************)
(* The routing delta of the SetRouting arm, checked in Spec.               *)
(***************************************************************************)
\* C39: the routing_updated built for an accepted set_routing(input, output,
\* gain) carries the gain the matrix stores at (input, output) afterwards.
C39_RoutingDeltaCarriesStoredGain ==
    \A k \in Frames :
        (cmdlog[k].cmd.type = "set_routing" /\ Accepted(k)) =>
            LET msg == Unwrap(cmdlog[k].resp)
            IN  /\ msg.type = "routing_updated"
                /\ msg.gain = cmdlog[k].post.routing[msg.input][msg.output]

(***************************************************************************)
(* The clock after PtpClock::stop, checked in SpecPtp.                     *)
(***************************************************************************)
\* C40: from the return of stop() to the next start() the state is
\* Initializing and is_synchronized() is false.
C40_StoppedStaysInitializing ==
    ~ptp.running => (ptp.state = "Initializing" /\ ~PtpClock_is_synchronized(ptp))

====
